---- MODULE Spec2Model ----
(***************************************************************************)
(* A model of the ai-tutor backend: the provider error classifiers, the    *)
(* embedding generator, the persistence gateway (EmbeddingModel), the      *)
(* request handlers of the embeddings API, the seeding script, the image   *)
(* batch pipeline and the handlers' catch blocks.                          *)
(*                                                                         *)
(* Encoding of JavaScript values:                                          *)
(*   - a string is a TLA+ string; `undefined` is the string UNDEF;         *)
(*   - an absent numeric status is NoStatus (0, falsy like undefined);     *)
(*   - an embedding vector is a record [len, of]: its length and the text  *)
(*     it was generated for (two vectors are element-wise equal iff the    *)
(*     records are equal);                                                 *)
(*   - a thrown value is a record [name, code, statusCode, retryable,      *)
(*     message], message being the pair <<fixed text, interpolated text>>. *)
(***************************************************************************)
EXTENDS Integers, Sequences, FiniteSets, TLC

\* ------------------------------------------------------------------------
\* HttpStatusCode (utils/index.ts)
\* ------------------------------------------------------------------------
SUCCESSWITHBODY == 200
CREATED == 201
BADREQUEST == 400
UNAUTHORIZED == 401
NOTFOUND == 404
CONFLICT == 409
TOOMANYREQUESTS == 429
INTERNALSERVERERROR == 500
SERVICEUNAVAILABLE == 503

\* ------------------------------------------------------------------------
\* JavaScript values
\* ------------------------------------------------------------------------
UNDEF == "<undefined>"

\* error.status when the provider error carries none
NoStatus == 0

\* error.code when the provider error carries none
NoCode == "<no code>"

\* !x for a string-or-undefined x
Falsy(x) == x = UNDEF \/ x = ""

\* `${x}` for a string-or-undefined x
Interp(x) == IF x = UNDEF THEN "undefined" ELSE x

\* ------------------------------------------------------------------------
\* Error taxonomy (utils/error/customEmbeddingError.ts)
\* ------------------------------------------------------------------------
EmbeddingError(message, code, statusCode, retryable) ==
    [name |-> "EmbeddingError", code |-> code, statusCode |-> statusCode,
     retryable |-> retryable, message |-> message]

QuotaExceededError ==
    [EmbeddingError(<<"OpenAI quota exceeded. Please check your billing and plan.", "">>,
                    "QUOTA_EXCEEDED", TOOMANYREQUESTS, FALSE)
        EXCEPT !.name = "QuotaExceededError"]

APIKeyError(message) ==
    [EmbeddingError(message, "INVALID_API_KEY", UNAUTHORIZED, FALSE)
        EXCEPT !.name = "APIKeyError"]

RateLimitError(message) ==
    [EmbeddingError(message, "RATE_LIMIT", TOOMANYREQUESTS, TRUE)
        EXCEPT !.name = "RateLimitError"]

NetworkError(message) ==
    [EmbeddingError(message, "NETWORK_ERROR", SERVICEUNAVAILABLE, TRUE)
        EXCEPT !.name = "NetworkError"]

ValidationError(message) ==
    [EmbeddingError(message, "VALIDATION_ERROR", BADREQUEST, FALSE)
        EXCEPT !.name = "ValidationError"]

\* a plain (untyped) Error(message)
PlainError(message) ==
    [name |-> "Error", code |-> NoCode, statusCode |-> NoStatus,
     retryable |-> FALSE, message |-> message]

\* no value thrown
NoError ==
    [name |-> "none", code |-> NoCode, statusCode |-> NoStatus,
     retryable |-> FALSE, message |-> <<"", "">>]

IsEmbeddingError(e) ==
    e.name \in {"EmbeddingError", "QuotaExceededError", "APIKeyError",
                "RateLimitError", "NetworkError", "ValidationError"}

\* ------------------------------------------------------------------------
\* Provider errors: the values the OpenAI client can reject with
\* ------------------------------------------------------------------------
NetworkCodes == {"ECONNRESET", "ETIMEDOUT", "ENOTFOUND"}

ProviderStatuses == {NoStatus, 400, 401, 429, 500, 503}

ProviderCodes ==
    {NoCode, "insufficient_quota", "invalid_api_key", "rate_limit_exceeded",
     "server_error", "model_not_found"} \cup NetworkCodes

ProviderMessages == {UNDEF, "", "upstream detail"}

ProviderErrors ==
    [status : ProviderStatuses, code : ProviderCodes, message : ProviderMessages]

\* ------------------------------------------------------------------------
\* Provider error classifier of the embedding service
\* (services/embeddingService.ts, handleOpenAIError)
\* ------------------------------------------------------------------------
\* a classifier that returns for an error it does not recognise, so that
\* generateEmbeddings throws its plain Error
HandleOpenAIErrorFallingThrough(error) ==
    IF error.code = "insufficient_quota"
    THEN QuotaExceededError
    ELSE IF error.code = "invalid_api_key" \/ error.status = 401
    THEN APIKeyError(<<"Invalid or missing OpenAI API key.", "">>)
    ELSE IF error.code = "rate_limit_exceeded" \/ error.status = 429
    THEN RateLimitError(<<"Rate limit exceeded. Please try again later.", "">>)
    ELSE IF error.code = "server_error" \/ error.status >= 500
    THEN NetworkError(<<"OpenAI service is temporarily unavailable.", "">>)
    ELSE IF error.code \in NetworkCodes
    THEN NetworkError(<<"Network error occurred while generating embeddings.", "">>)
    ELSE PlainError(<<"Unexpected error in embedding generation", "">>)

\* handleOpenAIError(error) of the embedding service: the value it throws
HandleOpenAIError(error) ==
    IF error.code = "insufficient_quota"
    THEN QuotaExceededError
    ELSE IF error.code = "invalid_api_key" \/ error.status = 401
    THEN APIKeyError(<<"Invalid or missing OpenAI API key.", "">>)
    ELSE IF error.code = "rate_limit_exceeded" \/ error.status = 429
    THEN RateLimitError(<<"Rate limit exceeded. Please try again later.", "">>)
    ELSE IF error.code = "server_error" \/ error.status >= 500
    THEN NetworkError(<<"OpenAI service is temporarily unavailable.", "">>)
    ELSE IF error.code \in NetworkCodes
    THEN NetworkError(<<"Network error occurred while generating embeddings.", "">>)
    ELSE EmbeddingError(
             <<"Failed to generate embeddings: ",
               IF Falsy(error.message) THEN "Unknown error" ELSE error.message>>,
             "EMBEDDING_GENERATION_FAILED", INTERNALSERVERERROR, TRUE)

\* ------------------------------------------------------------------------
\* Provider error classifier of the image-to-text service
\* (services/mathImageService.ts, handleOpenAIError)
\* ------------------------------------------------------------------------
\* an image classifier whose quota failure is retryable
HandleOpenAIErrorImageRetryableQuota(error) ==
    IF error.status = UNAUTHORIZED
    THEN APIKeyError(<<"Invalid or missing OpenAI API key", "">>)
    ELSE IF error.status = TOOMANYREQUESTS
    THEN IF error.code = "insufficient_quota"
         THEN EmbeddingError(
                  <<"OpenAI quota exceeded. Please check your billing and plan.", "">>,
                  "QUOTA_EXCEEDED", TOOMANYREQUESTS, TRUE)
         ELSE RateLimitError(<<"Rate limit exceeded. Please try again later.", "">>)
    ELSE IF error.status >= INTERNALSERVERERROR
    THEN NetworkError(<<"OpenAI service is temporarily unavailable", "">>)
    ELSE EmbeddingError(
             <<"OpenAI API error: ", Interp(error.message)>>,
             "OPENAI_API_ERROR",
             IF error.status = NoStatus THEN INTERNALSERVERERROR ELSE error.status,
             TRUE)

\* handleOpenAIError(error) of the image service: the value it throws
HandleOpenAIErrorImage(error) ==
    IF error.status = UNAUTHORIZED
    THEN APIKeyError(<<"Invalid or missing OpenAI API key", "">>)
    ELSE IF error.status = TOOMANYREQUESTS
    THEN IF error.code = "insufficient_quota"
         THEN EmbeddingError(
                  <<"OpenAI quota exceeded. Please check your billing and plan.", "">>,
                  "QUOTA_EXCEEDED", TOOMANYREQUESTS, FALSE)
         ELSE RateLimitError(<<"Rate limit exceeded. Please try again later.", "">>)
    ELSE IF error.status >= INTERNALSERVERERROR
    THEN NetworkError(<<"OpenAI service is temporarily unavailable", "">>)
    ELSE EmbeddingError(
             <<"OpenAI API error: ", Interp(error.message)>>,
             "OPENAI_API_ERROR",
             IF error.status = NoStatus THEN INTERNALSERVERERROR ELSE error.status,
             TRUE)

\* The catch block of convertMathImageToLatex, for a value rejected by the
\* provider call: an object with a status or a code goes to the classifier,
\* anything else is wrapped.
ConvertMathImageToLatexCatch(error) ==
    IF error.status # NoStatus \/ error.code # NoCode
    THEN HandleOpenAIErrorImage(error)
    ELSE EmbeddingError(
             <<"Failed to convert math image to LaTeX: ", "Unknown error">>,
             "MATH_IMAGE_CONVERSION_FAILED", INTERNALSERVERERROR, TRUE)

\* ------------------------------------------------------------------------
\* Texts and embedding vectors
\* ------------------------------------------------------------------------
\* the dimensionality the service and the questions table expect
EMBEDDING_DIM == 1536

\* `Question: ${question}\nAnswer: ${answer}`
CombinedText(question, answer) == <<"Question: ", question, "\nAnswer: ", answer>>

NoVector == [len |-> 0, of |-> <<>>]

\* lengths of the vectors the provider may answer with (model drift included)
VectorLens == {EMBEDDING_DIM - 1, EMBEDDING_DIM, EMBEDDING_DIM + 1}

\* provider errors seen by the request handlers and the seeding script
CallErrors ==
    {e \in ProviderErrors :
        /\ e.message = "upstream detail"
        /\ <<e.status, e.code>> \in {<<429, NoCode>>, <<500, NoCode>>, <<400, NoCode>>,
                                      <<NoStatus, "ECONNRESET">>}}

\* what one call of openai.embeddings.create may end in
ProviderOutcomes ==
    [ok : {TRUE}, len : VectorLens, error : {[status |-> NoStatus, code |-> NoCode, message |-> UNDEF]}]
    \cup [ok : {FALSE}, len : {0}, error : CallErrors]

\* ------------------------------------------------------------------------
\* Embedding generator (services/embeddingService.ts)
\* A result is [ok, value, thrown, called]: called tells whether the
\* provider was called.
\* ------------------------------------------------------------------------
Returned(value, called) ==
    [ok |-> TRUE, value |-> value, thrown |-> NoError, called |-> called]

Threw(thrown, called) ==
    [ok |-> FALSE, value |-> NoVector, thrown |-> thrown, called |-> called]

\* generateEmbeddings(text), the provider call ending in `outcome`
GenerateEmbeddings(text, outcome) ==
    IF outcome.ok
    THEN Returned([len |-> outcome.len, of |-> text], TRUE)
    ELSE Threw(HandleOpenAIError(outcome.error), TRUE)

\* a validateEmbeddingDimensions that accepts every length
ValidateEmbeddingDimensionsAnyLength(embedding) == NoError

\* validateEmbeddingDimensions(embedding): the value thrown, NoError if none
ValidateEmbeddingDimensions(embedding) ==
    IF embedding.len # EMBEDDING_DIM
    THEN EmbeddingError(<<"Embedding must have 1536 dimensions, got ", "<length>">>,
                        "VALIDATION_ERROR", BADREQUEST, FALSE)
    ELSE NoError

\* the catch block of generateCombinedEmbedding
CombinedCatch(thrown) ==
    IF IsEmbeddingError(thrown)
    THEN thrown
    ELSE EmbeddingError(<<"Failed to generate combined embedding: ", thrown.message[1]>>,
                        "EMBEDDING_GENERATION_FAILED", INTERNALSERVERERROR, TRUE)

\* a generateCombinedEmbedding without its check of question and answer
GenerateCombinedEmbeddingUnchecked(question, answer, outcome) ==
    LET g == GenerateEmbeddings(CombinedText(question, answer), outcome)
        v == ValidateEmbeddingDimensions(g.value)
    IN  IF ~g.ok THEN Threw(CombinedCatch(g.thrown), TRUE)
        ELSE IF v # NoError THEN Threw(CombinedCatch(v), TRUE)
        ELSE Returned(g.value, TRUE)

\* generateCombinedEmbedding(question, answer)
GenerateCombinedEmbedding(question, answer, outcome) ==
    IF Falsy(question) \/ Falsy(answer)
    THEN Threw(CombinedCatch(
                   EmbeddingError(<<"Question and answer are required", "">>,
                                  "VALIDATION_ERROR", BADREQUEST, FALSE)), FALSE)
    ELSE LET g == GenerateEmbeddings(CombinedText(question, answer), outcome)
             v == ValidateEmbeddingDimensions(g.value)
         IN  IF ~g.ok THEN Threw(CombinedCatch(g.thrown), TRUE)
             ELSE IF v # NoError THEN Threw(CombinedCatch(v), TRUE)
             ELSE Returned(g.value, TRUE)

\* generateCombinedEmbedding of scripts/seedEmbeddings.ts (a local function
\* of the script, which shadows the service's)
SeedGenerateCombinedEmbedding(question, answer, outcome) ==
    GenerateEmbeddings(CombinedText(question, answer), outcome)

\* ------------------------------------------------------------------------
\* The questions table (db/index.ts, CREATE TABLE "questions")
\* A table is a function from the ids of its rows to the rows.
\* ------------------------------------------------------------------------
NoId == 0

NoRow == [id |-> NoId, question |-> UNDEF, answer |-> UNDEF, embedding |-> NoVector]

EmptyTable == [i \in {} |-> NoRow]

\* messages of the errors the datastore driver throws
DbErrorMessages ==
    {"duplicate key value violates unique constraint",
     "violates foreign key constraint",
     "violates check constraint",
     "connection terminated unexpectedly",
     "expected 1536 dimensions"}

\* how an INSERT ends when the datastore itself fails: "none" when it does not
DbFaults == {"none"} \cup (DbErrorMessages \ {"expected 1536 dimensions"})

\* how a SELECT, an UPDATE or a DELETE ends when the datastore fails
QueryFaults == {"none", "connection terminated unexpectedly"}

\* message.includes(needle)
Includes(message, needle) ==
    CASE needle = "duplicate key" ->
            message = "duplicate key value violates unique constraint"
      [] needle = "unique constraint" ->
            message = "duplicate key value violates unique constraint"
      [] needle = "foreign key" ->
            message = "violates foreign key constraint"
      [] needle = "constraint" ->
            message \in {"duplicate key value violates unique constraint",
                         "violates foreign key constraint",
                         "violates check constraint"}

\* INSERT INTO questions ... RETURNING *: the error it ends in ("none" if it
\* inserts), the embedding column being vector(1536)
DbInsertError(row, fault) ==
    IF fault # "none" THEN fault
    ELSE IF row.embedding.len # EMBEDDING_DIM THEN "expected 1536 dimensions"
    ELSE "none"

DbInsert(tbl, row) == [i \in DOMAIN tbl \cup {row.id} |-> IF i = row.id THEN row ELSE tbl[i]]

DbDelete(tbl, id) == [i \in DOMAIN tbl \ {id} |-> tbl[i]]

\* UPDATE questions SET ...updates WHERE id = id: a field that is undefined
\* in updates is not set
DbUpdate(tbl, id, updates) ==
    [tbl EXCEPT ![id] =
        [@ EXCEPT !.question = IF updates.question = UNDEF THEN @ ELSE updates.question,
                  !.answer = IF updates.answer = UNDEF THEN @ ELSE updates.answer]]

\* ------------------------------------------------------------------------
\* Persistence gateway (models/embedding.ts, EmbeddingModel)
\* A result is [ok, row, tbl, thrown]: the record returned, the table after
\* the call and the value thrown.
\* ------------------------------------------------------------------------
ModelOk(row, tbl) == [ok |-> TRUE, row |-> row, tbl |-> tbl, thrown |-> NoError]

ModelThrew(thrown, tbl) == [ok |-> FALSE, row |-> NoRow, tbl |-> tbl, thrown |-> thrown]

NotFoundError ==
    EmbeddingError(<<"Question not found", "">>, "NOT_FOUND", NOTFOUND, FALSE)

\* a catch block of create that tests for a constraint violation first
ModelCreateCatchConstraintFirst(message) ==
    IF Includes(message, "foreign key") \/ Includes(message, "constraint")
    THEN EmbeddingError(<<"Database constraint violation", "">>,
                        "CONSTRAINT_VIOLATION", BADREQUEST, FALSE)
    ELSE IF Includes(message, "duplicate key") \/ Includes(message, "unique constraint")
    THEN EmbeddingError(<<"Question already exists in the database", "">>,
                        "DUPLICATE_QUESTION", CONFLICT, FALSE)
    ELSE EmbeddingError(<<"Database operation failed: ", message>>,
                        "DATABASE_ERROR", INTERNALSERVERERROR, TRUE)

\* the catch block of EmbeddingModel.create
ModelCreateCatch(message) ==
    IF Includes(message, "duplicate key") \/ Includes(message, "unique constraint")
    THEN EmbeddingError(<<"Question already exists in the database", "">>,
                        "DUPLICATE_QUESTION", CONFLICT, FALSE)
    ELSE IF Includes(message, "foreign key") \/ Includes(message, "constraint")
    THEN EmbeddingError(<<"Database constraint violation", "">>,
                        "CONSTRAINT_VIOLATION", BADREQUEST, FALSE)
    ELSE EmbeddingError(<<"Database operation failed: ", message>>,
                        "DATABASE_ERROR", INTERNALSERVERERROR, TRUE)

\* EmbeddingModel.create(question, answer, embedding); id is the id the
\* table's default generates
ModelCreate(tbl, id, question, answer, embedding, fault) ==
    LET row == [id |-> id, question |-> question, answer |-> answer,
                embedding |-> embedding]
        err == DbInsertError(row, fault)
    IN  IF err = "none"
        THEN ModelOk(row, DbInsert(tbl, row))
        ELSE ModelThrew(ModelCreateCatch(err), tbl)

\* a findById that returns the record without its embedding
ModelFindByIdWithoutEmbedding(tbl, id, fault) ==
    IF fault # "none"
    THEN ModelThrew(EmbeddingError(<<"Failed to fetch embedding: ", fault>>,
                                   "DATABASE_ERROR", INTERNALSERVERERROR, TRUE), tbl)
    ELSE IF id \notin DOMAIN tbl
    THEN ModelThrew(NotFoundError, tbl)
    ELSE ModelOk([tbl[id] EXCEPT !.embedding = NoVector], tbl)

\* EmbeddingModel.findById(id)
ModelFindById(tbl, id, fault) ==
    IF fault # "none"
    THEN ModelThrew(EmbeddingError(<<"Failed to fetch embedding: ", fault>>,
                                   "DATABASE_ERROR", INTERNALSERVERERROR, TRUE), tbl)
    ELSE IF id \notin DOMAIN tbl
    THEN ModelThrew(NotFoundError, tbl)
    ELSE ModelOk(tbl[id], tbl)

\* EmbeddingModel.update(id, updates)
ModelUpdate(tbl, id, updates, fault) ==
    IF fault # "none"
    THEN ModelThrew(EmbeddingError(<<"Failed to update embedding: ", fault>>,
                                   "DATABASE_ERROR", INTERNALSERVERERROR, TRUE), tbl)
    ELSE IF id \notin DOMAIN tbl
    THEN ModelThrew(NotFoundError, tbl)
    ELSE ModelOk(DbUpdate(tbl, id, updates)[id], DbUpdate(tbl, id, updates))

\* a delete that reports success and leaves the row in the table
ModelDeleteKeepsRow(tbl, id, fault) ==
    IF fault # "none"
    THEN ModelThrew(EmbeddingError(<<"Failed to delete embedding: ", fault>>,
                                   "DATABASE_ERROR", INTERNALSERVERERROR, TRUE), tbl)
    ELSE IF id \notin DOMAIN tbl
    THEN ModelThrew(NotFoundError, tbl)
    ELSE ModelOk(NoRow, tbl)

\* EmbeddingModel.delete(id)
ModelDelete(tbl, id, fault) ==
    IF fault # "none"
    THEN ModelThrew(EmbeddingError(<<"Failed to delete embedding: ", fault>>,
                                   "DATABASE_ERROR", INTERNALSERVERERROR, TRUE), tbl)
    ELSE IF id \notin DOMAIN tbl
    THEN ModelThrew(NotFoundError, tbl)
    ELSE ModelOk(NoRow, DbDelete(tbl, id))

\* ------------------------------------------------------------------------
\* Response envelopes (controller/embeddingController.ts)
\* ------------------------------------------------------------------------
ErrorEnvelope(statusCode, error, code, retryable) ==
    [statusCode |-> statusCode, error |-> error, code |-> code,
     retryable |-> retryable, data |-> NoRow]

SuccessEnvelope(statusCode, data) ==
    [statusCode |-> statusCode, error |-> <<"", "">>, code |-> NoCode,
     retryable |-> FALSE, data |-> data]

\* the data of updateEmbedding's response: the record without its embedding
WithoutEmbedding(row) == [row EXCEPT !.embedding = NoVector]

\* no response yet: the handler is suspended at an await
Pending == SuccessEnvelope(NoStatus, NoRow)

\* a mapping that reports every typed failure as an internal error
TypedEnvelopeAsInternal(thrown) ==
    ErrorEnvelope(INTERNALSERVERERROR, thrown.message, "INTERNAL_ERROR", FALSE)

\* the mapping of an EmbeddingError to the error envelope, the same in every
\* handler
TypedEnvelope(thrown) ==
    ErrorEnvelope(thrown.statusCode, thrown.message, thrown.code, thrown.retryable)

\* the catch block of createEmbedding
CreateEmbeddingCatch(thrown) ==
    IF IsEmbeddingError(thrown) THEN TypedEnvelope(thrown)
    ELSE IF thrown.name \in {"Error", "TypeError"}
    THEN ErrorEnvelope(BADREQUEST, thrown.message, "VALIDATION_ERROR", FALSE)
    ELSE ErrorEnvelope(INTERNALSERVERERROR, <<"Internal server error", "">>,
                       "INTERNAL_ERROR", FALSE)

\* the catch block of getEmbeddingById
GetEmbeddingByIdCatch(thrown) ==
    IF IsEmbeddingError(thrown) THEN TypedEnvelope(thrown)
    ELSE ErrorEnvelope(INTERNALSERVERERROR, <<"Failed to fetch embedding", "">>,
                       "FETCH_ERROR", FALSE)

\* the catch block of updateEmbedding
UpdateEmbeddingCatch(thrown) ==
    IF IsEmbeddingError(thrown) THEN TypedEnvelope(thrown)
    ELSE ErrorEnvelope(INTERNALSERVERERROR, <<"Failed to update embedding", "">>,
                       "UPDATE_ERROR", FALSE)

\* the catch block of deleteEmbedding
DeleteEmbeddingCatch(thrown) ==
    IF IsEmbeddingError(thrown) THEN TypedEnvelope(thrown)
    ELSE ErrorEnvelope(INTERNALSERVERERROR, <<"Failed to delete embedding", "">>,
                       "DELETE_ERROR", FALSE)

\* ------------------------------------------------------------------------
\* Bounds and inputs of the API model
\* ------------------------------------------------------------------------
\* ids the table's default can generate
MaxIds == 2

\* handlers that may be suspended between two awaits at a time
MaxSuspended == 2

Ids == 1..MaxIds
Slots == 1..MaxSuspended

\* bodies of POST /embeddings: each field a text, the empty string or
\* undefined; NoBody is a request without a body
CreateBodies == [question : {"q1", "q2", "", UNDEF}, answer : {"a1", "", UNDEF}]
NoBody == [question |-> "<no body>", answer |-> "<no body>"]

\* bodies of PUT /embeddings/:id: a new text, the empty string or undefined
UpdateBodies == [question : {"q2", "", UNDEF}, answer : {"a2", "", UNDEF}]

\* what the provider answers a handler's call with
ApiOutcomes ==
    {o \in ProviderOutcomes :
        \/ o.ok /\ o.len \in {EMBEDDING_DIM, EMBEDDING_DIM + 1}
        \/ ~o.ok /\ o.error.status \in {429, 400}}

VARIABLES
    cErr,       \* the provider error handed to a classifier
    cOut,       \* [fn, thrown]: the classifier that ran last and what it threw
    rows,       \* the questions table
    nextId,     \* the next id the table's default generates
    pc,         \* per slot: where the handler running in it is suspended
    loc,        \* per slot: the locals of the suspended handler
    last,       \* the step just taken: the request served and its response
    deleted,    \* history: the ids whose delete succeeded
    createdAs,  \* history: the row each id was created as
    touched,    \* history: the ids an update or a delete has changed
    gIn,        \* the arguments and the provider outcome of a generator call
    gOut,       \* [fn, result]: the generator function called and its result
    draft,      \* which seedEmbeddings of scripts/seedEmbeddings.ts runs
    isHealthy,  \* whether db.execute('SELECT 1') succeeds
    fileExists, \* whether qa_latex.txt exists
    pairs,      \* the pairs parsed from qa_latex.txt
    seedPc,     \* where seedEmbeddings is
    i,          \* the loop variable of seedEmbeddings
    batchResults, \* per pair: "pending", or whether its item returned true
    successCount,
    errorCount,
    issued,     \* history: the lengths of the vectors handed to an INSERT
    hThrown,    \* the value thrown inside a request handler's try block
    hOut,       \* [handler, env]: the handler whose catch ran and its envelope
    groupsArray,   \* the pairs grouped from the image files of the qa directory
    progressFile,  \* qa_progress.json: [exists, keys]
    outputFile,    \* qa_latex.txt: [exists, pairs]
    imgPc,         \* where processImagesToLatex is
    run,           \* the number of the current run of processImagesToLatex
    prevRun,       \* how the run before the current one ended
    processedKeys,
    results,       \* the keys of the pairs pushed to results, in order
    iImages,       \* the loop variable i of processImagesToLatex
    conv,          \* per pair and image: the call of convertImageToLatexText
    settled,       \* per pair: how its batch promise resolved
    finishedKeys,  \* history: the keys of the complete pairs of the batches
                   \* whose checkpoint write has happened since the last
                   \* completed run
    ckptWrites,    \* history: the checkpoint writes of the current run
    killedAt,      \* history: where the run was when it was killed
    bTbl,          \* the questions table a component call is made on
    bCall,         \* the component function called last and its inputs
    bRes,          \* what that call returned or threw
    uRows,         \* the questions table of the concurrent updates
    uReq           \* per request: the updateEmbedding call serving it

classifyVars == <<cErr, cOut>>
apiVars == <<rows, nextId, pc, loc, last, deleted, createdAs, touched>>
genVars == <<gIn, gOut>>
seedVars == <<draft, isHealthy, fileExists, pairs, seedPc, i, batchResults,
              successCount, errorCount, issued>>
catchVars == <<hThrown, hOut>>
imageVars == <<groupsArray, progressFile, outputFile, imgPc, run, prevRun,
               processedKeys, results, iImages, conv, settled, finishedKeys,
               ckptWrites, killedAt>>
boundaryVars == <<bTbl, bCall, bRes>>
updateVars == <<uRows, uReq>>
restVars == <<boundaryVars, updateVars>>
otherVars == <<catchVars, imageVars, restVars>>
vars == <<classifyVars, apiVars, genVars, seedVars, otherVars>>

\* no step taken, or the step just taken already observed
NoStep ==
    [op |-> "none", id |-> NoId, invalid |-> FALSE, env |-> Pending,
     called |-> FALSE, insertLen |-> 0, wrote |-> FALSE]

\* the state of the API before any request
ApiIdle ==
    /\ rows = EmptyTable
    /\ nextId = 1
    /\ pc = [p \in Slots |-> "idle"]
    /\ loc = [p \in Slots |-> NoRow]
    /\ last = NoStep
    /\ deleted = {}
    /\ createdAs = EmptyTable
    /\ touched = {}

\* no provider error classified
ClassifyIdle ==
    /\ cErr = [status |-> NoStatus, code |-> NoCode, message |-> UNDEF]
    /\ cOut = [fn |-> "none", thrown |-> NoError]

NoOutcome == [ok |-> TRUE, len |-> 0, error |-> [status |-> NoStatus, code |-> NoCode, message |-> UNDEF]]

\* no generator call made
GenIdle ==
    /\ gIn = [question |-> UNDEF, answer |-> UNDEF, outcome |-> NoOutcome]
    /\ gOut = [fn |-> "none", result |-> Returned(NoVector, FALSE)]

\* the seeding script not run
SeedIdle ==
    /\ draft = 0
    /\ isHealthy = FALSE
    /\ fileExists = FALSE
    /\ pairs = <<>>
    /\ seedPc = "idle"
    /\ i = 0
    /\ batchResults = <<>>
    /\ successCount = 0
    /\ errorCount = 0
    /\ issued = {}

\* no handler has caught anything
CatchIdle ==
    /\ hThrown = NoError
    /\ hOut = [handler |-> "none", env |-> Pending]

\* a file that does not exist
NoFile == [exists |-> FALSE, keys |-> {}, pairs |-> <<>>]

\* processImagesToLatex not run
ImagesIdle ==
    /\ groupsArray = <<>>
    /\ progressFile = NoFile
    /\ outputFile = NoFile
    /\ imgPc = "idle"
    /\ run = 0
    /\ prevRun = "none"
    /\ processedKeys = {}
    /\ results = <<>>
    /\ iImages = 0
    /\ conv = <<>>
    /\ settled = <<>>
    /\ finishedKeys = {}
    /\ ckptWrites = 0
    /\ killedAt = "none"

\* no component function called
NoCall ==
    [fn |-> "none", fault |-> "none", id |-> NoId, limit |-> 0, offset |-> 0,
     named |-> FALSE]

\* the result of a component call: the value thrown (NoError if none), the
\* table after the call, the record, the page and the total it returned
NoResult ==
    [ok |-> TRUE, thrown |-> NoError, tbl |-> EmptyTable, row |-> NoRow,
     data |-> <<>>, total |-> 0]

\* no component function called
BoundaryIdle ==
    /\ bTbl = EmptyTable
    /\ bCall = NoCall
    /\ bRes = NoResult

\* no concurrent update running
UpdateIdle ==
    /\ uRows = EmptyTable
    /\ uReq = <<>>

RestIdle == BoundaryIdle /\ UpdateIdle

OthersIdle == CatchIdle /\ ImagesIdle /\ RestIdle

\* ------------------------------------------------------------------------
\* Specification of the classifiers: one provider error, classified by
\* each classifier in turn
\* ------------------------------------------------------------------------
ClassifyInit ==
    /\ cErr \in ProviderErrors
    /\ cOut = [fn |-> "none", thrown |-> NoError]
    /\ ApiIdle
    /\ GenIdle
    /\ SeedIdle
    /\ OthersIdle

ClassifyEmbedding ==
    /\ cOut' = [fn |-> "embedding", thrown |-> HandleOpenAIError(cErr)]
    /\ UNCHANGED <<cErr, apiVars, genVars, seedVars, otherVars>>

ClassifyImage ==
    /\ cOut' = [fn |-> "image", thrown |-> HandleOpenAIErrorImage(cErr)]
    /\ UNCHANGED <<cErr, apiVars, genVars, seedVars, otherVars>>

ClassifyConvertCatch ==
    /\ cOut' = [fn |-> "convert", thrown |-> ConvertMathImageToLatexCatch(cErr)]
    /\ UNCHANGED <<cErr, apiVars, genVars, seedVars, otherVars>>

ClassifyNext == ClassifyEmbedding \/ ClassifyImage \/ ClassifyConvertCatch

SpecClassify == ClassifyInit /\ [][ClassifyNext]_vars

\* ------------------------------------------------------------------------
\* Specification of the embeddings API: the request handlers of
\* controller/embeddingController.ts over one questions table.  A handler
\* runs from one await on the datastore to the next as one step; a provider
\* call shares no state and belongs to the step that awaits it.  A handler
\* suspended before its write occupies a slot and interleaves with every
\* other request.  Each step is recorded in `last` and the record is
\* dropped (Observe) before the next step.
\* ------------------------------------------------------------------------
TypeError ==
    [PlainError(<<"Cannot read properties of undefined", "">>) EXCEPT !.name = "TypeError"]

\* the record of a step: the handler, the id it names, whether the question
\* or the answer it was given is empty or missing, its response (Pending
\* if it suspended), whether it called the provider, the length of the
\* vector it handed to INSERT (0 if none), whether it changed the table
Step(op, id, invalid, env, called, insertLen, wrote) ==
    [op |-> op, id |-> id, invalid |-> invalid, env |-> env,
     called |-> called, insertLen |-> insertLen, wrote |-> wrote]

SuspendedCreates == {q \in Slots : pc[q] = "create_insert"}

\* a handler that suspends takes the first free slot
FreeSlot(p) == pc[p] = "idle" /\ \A q \in Slots : q < p => pc[q] # "idle"

Ready == last = NoStep

\* createEmbedding up to its await of EmbeddingModel.create
CreateEmbeddingStart(p, body) ==
    /\ Ready
    /\ FreeSlot(p)
    /\ IF body = NoBody
       THEN /\ last' = Step("createEmbedding", NoId, TRUE,
                            CreateEmbeddingCatch(TypeError), FALSE, 0, FALSE)
            /\ UNCHANGED <<pc, loc>>
       ELSE IF Falsy(body.question) \/ Falsy(body.answer)
       THEN /\ last' = Step("createEmbedding", NoId, TRUE,
                            ErrorEnvelope(BADREQUEST,
                                          <<"Question and answer are required", "">>,
                                          "VALIDATION_ERROR", FALSE), FALSE, 0, FALSE)
            /\ UNCHANGED <<pc, loc>>
       ELSE \E outcome \in ApiOutcomes :
            LET g == GenerateCombinedEmbedding(body.question, body.answer, outcome)
            IN  IF ~g.ok
                THEN /\ last' = Step("createEmbedding", NoId, FALSE,
                                     CreateEmbeddingCatch(g.thrown), g.called, 0, FALSE)
                     /\ UNCHANGED <<pc, loc>>
                ELSE /\ nextId + Cardinality(SuspendedCreates) <= MaxIds
                     /\ pc' = [pc EXCEPT ![p] = "create_insert"]
                     /\ loc' = [loc EXCEPT ![p] =
                                   [id |-> NoId, question |-> body.question,
                                    answer |-> body.answer, embedding |-> g.value]]
                     /\ last' = Step("createEmbedding", NoId, FALSE, Pending,
                                     g.called, 0, FALSE)
    /\ UNCHANGED <<rows, nextId, deleted, createdAs, touched, classifyVars, genVars, seedVars, otherVars>>

\* createEmbedding from EmbeddingModel.create to its response
CreateEmbeddingInsert(p, fault) ==
    /\ Ready
    /\ pc[p] = "create_insert"
    /\ LET r == ModelCreate(rows, nextId, loc[p].question, loc[p].answer,
                            loc[p].embedding, fault)
       IN  /\ rows' = r.tbl
           /\ nextId' = IF r.ok THEN nextId + 1 ELSE nextId
           /\ createdAs' = IF r.ok THEN DbInsert(createdAs, r.row) ELSE createdAs
           /\ last' = Step("createEmbedding", r.row.id, FALSE,
                           IF r.ok THEN SuccessEnvelope(CREATED, r.row)
                                   ELSE CreateEmbeddingCatch(r.thrown),
                           FALSE, loc[p].embedding.len, r.tbl # rows)
    /\ pc' = [pc EXCEPT ![p] = "idle"]
    /\ loc' = [loc EXCEPT ![p] = NoRow]
    /\ UNCHANGED <<deleted, touched, classifyVars, genVars, seedVars, otherVars>>

\* getEmbeddingById
GetEmbeddingById(id, fault) ==
    /\ Ready
    /\ LET r == ModelFindById(rows, id, fault)
       IN  last' = Step("getEmbeddingById", id, FALSE,
                        IF r.ok THEN SuccessEnvelope(SUCCESSWITHBODY, r.row)
                                ELSE GetEmbeddingByIdCatch(r.thrown),
                        FALSE, 0, FALSE)
    /\ UNCHANGED <<rows, nextId, pc, loc, deleted, createdAs, touched, classifyVars, genVars, seedVars, otherVars>>

\* updateEmbedding without an id
UpdateEmbeddingMissingId ==
    /\ Ready
    /\ last' = Step("updateEmbedding", NoId, FALSE,
                    ErrorEnvelope(BADREQUEST, <<"Embedding ID is required", "">>,
                                  "MISSING_ID", FALSE), FALSE, 0, FALSE)
    /\ UNCHANGED <<rows, nextId, pc, loc, deleted, createdAs, touched, classifyVars, genVars, seedVars, otherVars>>

\* updateEmbedding when the body names a question or an answer, up to its
\* await of EmbeddingModel.update
UpdateEmbeddingStart(p, id, body) ==
    /\ Ready
    /\ FreeSlot(p)
    /\ ~Falsy(body.question) \/ ~Falsy(body.answer)
    /\ \E fault \in QueryFaults :
       LET found == ModelFindById(rows, id, fault)
           question == IF Falsy(body.question) THEN found.row.question ELSE body.question
           answer == IF Falsy(body.answer) THEN found.row.answer ELSE body.answer
       IN  IF ~found.ok
           THEN /\ last' = Step("updateEmbedding", id, FALSE,
                                UpdateEmbeddingCatch(found.thrown), FALSE, 0, FALSE)
                /\ UNCHANGED <<pc, loc>>
           ELSE \E outcome \in ApiOutcomes :
                LET g == GenerateCombinedEmbedding(question, answer, outcome)
                IN  IF ~g.ok
                    THEN /\ last' = Step("updateEmbedding", id,
                                         Falsy(question) \/ Falsy(answer),
                                         UpdateEmbeddingCatch(g.thrown), g.called, 0, FALSE)
                         /\ UNCHANGED <<pc, loc>>
                    ELSE /\ pc' = [pc EXCEPT ![p] = "update_write"]
                         /\ loc' = [loc EXCEPT ![p] =
                                       [id |-> id, question |-> question,
                                        answer |-> answer, embedding |-> g.value]]
                         /\ last' = Step("updateEmbedding", id,
                                         Falsy(question) \/ Falsy(answer),
                                         Pending, g.called, 0, FALSE)
    /\ UNCHANGED <<rows, nextId, deleted, createdAs, touched, classifyVars, genVars, seedVars, otherVars>>

\* updateEmbedding from EmbeddingModel.update(id, {question, answer}) to its
\* response; the embedding generated before is not among the updates
UpdateEmbeddingWrite(p, fault) ==
    /\ Ready
    /\ pc[p] = "update_write"
    /\ LET updates == [question |-> loc[p].question, answer |-> loc[p].answer]
           r == ModelUpdate(rows, loc[p].id, updates, fault)
       IN  /\ rows' = r.tbl
           /\ touched' = IF r.ok THEN touched \cup {loc[p].id} ELSE touched
           /\ last' = Step("updateEmbedding", loc[p].id, FALSE,
                           IF r.ok THEN SuccessEnvelope(SUCCESSWITHBODY, WithoutEmbedding(r.row))
                                   ELSE UpdateEmbeddingCatch(r.thrown),
                           FALSE, 0, r.tbl # rows)
    /\ pc' = [pc EXCEPT ![p] = "idle"]
    /\ loc' = [loc EXCEPT ![p] = NoRow]
    /\ UNCHANGED <<nextId, deleted, createdAs, classifyVars, genVars, seedVars, otherVars>>

\* updateEmbedding when the body names neither a question nor an answer:
\* EmbeddingModel.update(id, body)
UpdateEmbeddingDirect(id, body, fault) ==
    /\ Ready
    /\ Falsy(body.question) /\ Falsy(body.answer)
    /\ LET r == ModelUpdate(rows, id, body, fault)
       IN  /\ rows' = r.tbl
           /\ touched' = IF r.ok THEN touched \cup {id} ELSE touched
           /\ last' = Step("updateEmbedding", id, FALSE,
                           IF r.ok THEN SuccessEnvelope(SUCCESSWITHBODY, WithoutEmbedding(r.row))
                                   ELSE UpdateEmbeddingCatch(r.thrown),
                           FALSE, 0, r.tbl # rows)
    /\ UNCHANGED <<nextId, pc, loc, deleted, createdAs, classifyVars, genVars, seedVars, otherVars>>

\* deleteEmbedding
DeleteEmbedding(id, fault) ==
    /\ Ready
    /\ LET r == ModelDelete(rows, id, fault)
       IN  IF id = NoId
           THEN /\ last' = Step("deleteEmbedding", id, FALSE,
                                ErrorEnvelope(BADREQUEST, <<"Embedding ID is required", "">>,
                                              "MISSING_ID", FALSE), FALSE, 0, FALSE)
                /\ UNCHANGED <<rows, deleted, touched>>
           ELSE /\ rows' = r.tbl
                /\ deleted' = IF r.ok THEN deleted \cup {id} ELSE deleted
                /\ touched' = IF r.ok THEN touched \cup {id} ELSE touched
                /\ last' = Step("deleteEmbedding", id, FALSE,
                                IF r.ok THEN SuccessEnvelope(SUCCESSWITHBODY, NoRow)
                                        ELSE DeleteEmbeddingCatch(r.thrown),
                                FALSE, 0, r.tbl # rows)
    /\ UNCHANGED <<nextId, pc, loc, createdAs, classifyVars, genVars, seedVars, otherVars>>

\* the step just taken has been observed
Observe ==
    /\ ~Ready
    /\ last' = NoStep
    /\ UNCHANGED <<rows, nextId, pc, loc, deleted, createdAs, touched, classifyVars, genVars, seedVars, otherVars>>

ApiInit ==
    /\ ClassifyIdle
    /\ ApiIdle
    /\ GenIdle
    /\ SeedIdle
    /\ OthersIdle

ApiNext ==
    \/ \E p \in Slots, body \in CreateBodies \cup {NoBody} : CreateEmbeddingStart(p, body)
    \/ \E p \in Slots, fault \in DbFaults : CreateEmbeddingInsert(p, fault)
    \/ \E id \in Ids, fault \in QueryFaults : GetEmbeddingById(id, fault)
    \/ UpdateEmbeddingMissingId
    \/ \E p \in Slots, id \in Ids, body \in UpdateBodies : UpdateEmbeddingStart(p, id, body)
    \/ \E p \in Slots, fault \in QueryFaults : UpdateEmbeddingWrite(p, fault)
    \/ \E id \in Ids, body \in UpdateBodies, fault \in QueryFaults :
          UpdateEmbeddingDirect(id, body, fault)
    \/ \E id \in Ids \cup {NoId}, fault \in QueryFaults : DeleteEmbedding(id, fault)
    \/ Observe

SpecApi == ApiInit /\ [][ApiNext]_vars

\* ------------------------------------------------------------------------
\* Specification of the embedding generator: one call of generateEmbeddings
\* or of generateCombinedEmbedding on arguments and a provider outcome drawn
\* from bounded sets
\* ------------------------------------------------------------------------
GenTexts == {"q1", "", UNDEF}

GenOutcomes ==
    {o \in ProviderOutcomes : o.ok}
    \cup [ok : {FALSE}, len : {0}, error : ProviderErrors]

GenerateInit ==
    /\ gIn \in [question : GenTexts, answer : {"a1", "", UNDEF}, outcome : GenOutcomes]
    /\ gOut = [fn |-> "none", result |-> Returned(NoVector, FALSE)]
    /\ ClassifyIdle
    /\ ApiIdle
    /\ SeedIdle
    /\ OthersIdle

CallGenerateEmbeddings ==
    /\ gOut' = [fn |-> "generateEmbeddings",
                result |-> GenerateEmbeddings(CombinedText(gIn.question, gIn.answer),
                                              gIn.outcome)]
    /\ UNCHANGED <<gIn, classifyVars, apiVars, seedVars, otherVars>>

CallGenerateCombinedEmbedding ==
    /\ gOut' = [fn |-> "generateCombinedEmbedding",
                result |-> GenerateCombinedEmbedding(gIn.question, gIn.answer,
                                                     gIn.outcome)]
    /\ UNCHANGED <<gIn, classifyVars, apiVars, seedVars, otherVars>>

GenerateNext == CallGenerateEmbeddings \/ CallGenerateCombinedEmbedding

SpecGenerate == GenerateInit /\ [][GenerateNext]_vars

\* ------------------------------------------------------------------------
\* Specification of the seeding script (scripts/seedEmbeddings.ts).  The
\* file holds two seedEmbeddings: the first (draft 1) generates with the
\* script's own generateCombinedEmbedding and inserts into the table itself,
\* the second (draft 2) calls createEmbedding.  The items of a batch run
\* concurrently and settle in any order; an item is one step.
\* ------------------------------------------------------------------------
\* pairs a corpus may hold
MaxPairs == 6

\* BATCH_SIZE of draft 1
BATCH_SIZE == 5

\* BATCH_SIZE of draft 2
BATCH_SIZE_VIA_HANDLER == 10

BatchSize == IF draft = 1 THEN BATCH_SIZE ELSE BATCH_SIZE_VIA_HANDLER

\* what parseLatexFile returns for a corpus of n complete pairs
Corpus(n) ==
    [k \in 1..n |-> [question |-> "q" \o ToString(k), answer |-> "a" \o ToString(k)]]

\* pairs.slice(i, i + BATCH_SIZE), as indices into pairs
Batch == {k \in 1..Len(pairs) : i < k /\ k <= i + BatchSize}

SeedInit ==
    /\ draft \in {1, 2}
    /\ isHealthy \in BOOLEAN
    /\ fileExists \in BOOLEAN
    /\ pairs \in {Corpus(n) : n \in 0..MaxPairs}
    /\ ~fileExists => pairs = <<>>
    /\ seedPc = "start"
    /\ i = 0
    /\ batchResults = [k \in 1..Len(pairs) |-> "pending"]
    /\ successCount = 0
    /\ errorCount = 0
    /\ issued = {}
    /\ ClassifyIdle
    /\ ApiIdle
    /\ GenIdle
    /\ OthersIdle

\* a seedEmbeddings that enters its loop without any of the checks
SeedStartUnchecked ==
    /\ seedPc = "start"
    /\ seedPc' = "batch"
    /\ UNCHANGED <<draft, isHealthy, fileExists, pairs, i, batchResults,
                   successCount, errorCount, issued, classifyVars, apiVars, genVars, otherVars>>

\* seedEmbeddings up to its loop: process.exit(1) on a failed health check
\* (draft 1 only), a missing file or an empty corpus
SeedStart ==
    /\ seedPc = "start"
    /\ seedPc' = IF draft = 1 /\ ~isHealthy THEN "exit"
                 ELSE IF ~fileExists THEN "exit"
                 ELSE IF Len(pairs) = 0 THEN "exit"
                 ELSE "batch"
    /\ UNCHANGED <<draft, isHealthy, fileExists, pairs, i, batchResults,
                   successCount, errorCount, issued, classifyVars, apiVars, genVars, otherVars>>

\* one item of a batch of draft 1: generate, then db.insert(questions)
SeedItemDirect(k) ==
    /\ draft = 1
    /\ seedPc = "batch"
    /\ k \in Batch
    /\ batchResults[k] = "pending"
    /\ \E outcome \in ProviderOutcomes :
       LET g == SeedGenerateCombinedEmbedding(pairs[k].question, pairs[k].answer, outcome)
       IN  IF ~g.ok
           THEN /\ batchResults' = [batchResults EXCEPT ![k] = "false"]
                /\ UNCHANGED <<rows, nextId, issued>>
           ELSE \E fault \in DbFaults :
                LET row == [id |-> nextId, question |-> pairs[k].question,
                            answer |-> pairs[k].answer, embedding |-> g.value]
                    err == DbInsertError(row, fault)
                IN  /\ issued' = issued \cup {g.value.len}
                    /\ rows' = IF err = "none" THEN DbInsert(rows, row) ELSE rows
                    /\ nextId' = IF err = "none" THEN nextId + 1 ELSE nextId
                    /\ batchResults' =
                          [batchResults EXCEPT ![k] = IF err = "none" THEN "true" ELSE "false"]
    /\ UNCHANGED <<draft, isHealthy, fileExists, pairs, seedPc, i, successCount,
                   errorCount, pc, loc, last, deleted, createdAs, touched,
                   classifyVars, genVars, otherVars>>

\* one item of a batch of draft 2: createEmbedding({body: {question, answer}})
SeedItemViaHandler(k) ==
    /\ draft = 2
    /\ seedPc = "batch"
    /\ k \in Batch
    /\ batchResults[k] = "pending"
    /\ \E outcome \in ProviderOutcomes :
       LET g == GenerateCombinedEmbedding(pairs[k].question, pairs[k].answer, outcome)
       IN  IF Falsy(pairs[k].question) \/ Falsy(pairs[k].answer) \/ ~g.ok
           THEN /\ batchResults' = [batchResults EXCEPT ![k] = "false"]
                /\ UNCHANGED <<rows, nextId, issued>>
           ELSE \E fault \in DbFaults :
                LET r == ModelCreate(rows, nextId, pairs[k].question, pairs[k].answer,
                                     g.value, fault)
                    env == IF r.ok THEN SuccessEnvelope(CREATED, r.row)
                                   ELSE CreateEmbeddingCatch(r.thrown)
                IN  /\ issued' = issued \cup {g.value.len}
                    /\ rows' = r.tbl
                    /\ nextId' = IF r.ok THEN nextId + 1 ELSE nextId
                    /\ batchResults' =
                          [batchResults EXCEPT
                              ![k] = IF env.statusCode = CREATED THEN "true" ELSE "false"]
    /\ UNCHANGED <<draft, isHealthy, fileExists, pairs, seedPc, i, successCount,
                   errorCount, pc, loc, last, deleted, createdAs, touched,
                   classifyVars, genVars, otherVars>>

\* a tally that leaves the failed items out
SeedBatchEndWithoutFailures ==
    /\ seedPc = "batch"
    /\ \A k \in Batch : batchResults[k] # "pending"
    /\ successCount' = successCount + Cardinality({k \in Batch : batchResults[k] = "true"})
    /\ errorCount' = errorCount
    /\ i' = i + BatchSize
    /\ seedPc' = IF i + BatchSize < Len(pairs) THEN "batch" ELSE "done"
    /\ UNCHANGED <<draft, isHealthy, fileExists, pairs, batchResults, issued,
                   classifyVars, apiVars, genVars, otherVars>>

\* Promise.all(batchPromises) has resolved: the results are tallied and the
\* loop goes on to the next batch
SeedBatchEnd ==
    /\ seedPc = "batch"
    /\ \A k \in Batch : batchResults[k] # "pending"
    /\ successCount' = successCount + Cardinality({k \in Batch : batchResults[k] = "true"})
    /\ errorCount' = errorCount + Cardinality({k \in Batch : batchResults[k] = "false"})
    /\ i' = i + BatchSize
    /\ seedPc' = IF i + BatchSize < Len(pairs) THEN "batch" ELSE "done"
    /\ UNCHANGED <<draft, isHealthy, fileExists, pairs, batchResults, issued,
                   classifyVars, apiVars, genVars, otherVars>>

SeedNext ==
    \/ SeedStart
    \/ \E k \in 1..MaxPairs : SeedItemDirect(k)
    \/ \E k \in 1..MaxPairs : SeedItemViaHandler(k)
    \/ SeedBatchEnd

SpecSeed == SeedInit /\ [][SeedNext]_vars

\* ------------------------------------------------------------------------
\* Image-to-text service (services/mathImageService.ts)
\* ------------------------------------------------------------------------
\* provider errors seen by the image pipeline: rate limit, exhausted quota,
\* server error
ImageCallErrors ==
    {e \in ProviderErrors :
        /\ e.message = "upstream detail"
        /\ <<e.status, e.code>> \in {<<429, NoCode>>, <<429, "insufficient_quota">>,
                                      <<500, NoCode>>}}

\* what one call of openai.chat.completions.create may end in: a content
\* (possibly empty) or an error
ImageOutcomes ==
    [ok : {TRUE}, content : {"latex", ""},
     error : {[status |-> NoStatus, code |-> NoCode, message |-> UNDEF]}]
    \cup [ok : {FALSE}, content : {""}, error : ImageCallErrors]

\* what a provider call of the image pipeline may end in
PipelineOutcomes == {o \in ImageOutcomes : o.ok => o.content # ""}

\* convertMathImageToLatex(imageBuffer): [ok, thrown, called]
ConvertMathImageToLatex(bufferEmpty, outcome) ==
    IF bufferEmpty
    THEN [ok |-> FALSE, called |-> FALSE,
          thrown |-> ValidationError(<<"Image buffer is required and cannot be empty", "">>)]
    ELSE IF ~outcome.ok
    THEN [ok |-> FALSE, called |-> TRUE,
          thrown |-> ConvertMathImageToLatexCatch(outcome.error)]
    ELSE IF outcome.content = ""
    THEN [ok |-> FALSE, called |-> TRUE,
          thrown |-> EmbeddingError(<<"No LaTeX output received from OpenAI", "">>,
                                    "NO_LATEX_OUTPUT", INTERNALSERVERERROR, FALSE)]
    ELSE [ok |-> TRUE, called |-> TRUE, thrown |-> NoError]

\* ------------------------------------------------------------------------
\* Specification of the image batch pipeline (scripts/convertImagesToLatex,
\* processImagesToLatex).  A step runs from one await to the next: the
\* items of a batch start together, each converting its two images in
\* parallel; a conversion's provider call returns, its backoff ends, an
\* item's two conversions have resolved, the batch's promises have all
\* resolved.  The process may be killed and may be run again.
\* ------------------------------------------------------------------------
\* pairs a qa directory may hold
MaxGroups == 3

\* runs of processImagesToLatex
MaxRuns == 2

\* BATCH_SIZE of processImagesToLatex
BATCH_SIZE_IMAGES == 2

\* maxRetries of convertImageToLatexText
maxRetries == 3

Sides == {"question", "answer"}

\* groupFiles(files) for n pairs, the pair `inc` (if any) lacking an image
GroupsOf(n, inc) ==
    [k \in 1..n |-> [key |-> "unit_" \o ToString(k), complete |-> k # inc]]

Corpora == {GroupsOf(n, inc) : n \in 0..MaxGroups, inc \in 0..MaxGroups}

NoConv == [st |-> "idle", attempt |-> 0, err |-> NoCode]

FirstAttempt == [st |-> "inflight", attempt |-> 1, err |-> NoCode]

\* convertImageToLatexText has returned the LaTeX text
Converted == [st |-> "ok", attempt |-> 0, err |-> NoCode]

\* groupsArray.slice(j, j + BATCH_SIZE), as indices into groupsArray
ImageBatch(j) ==
    {k \in 1..Len(groupsArray) : j < k /\ k <= j + BATCH_SIZE_IMAGES}

\* a batch item that neither is skipped nor warns of an incomplete pair
Eligible(k, keys) == groupsArray[k].key \notin keys /\ groupsArray[k].complete

\* batch.map(async ...) for the batch at j: every item runs up to its first
\* await
ConvAtBatchStart(j, keys) ==
    [k \in 1..Len(groupsArray) |->
        IF k \in ImageBatch(j) /\ Eligible(k, keys)
        THEN [question |-> FirstAttempt, answer |-> FirstAttempt]
        ELSE [question |-> NoConv, answer |-> NoConv]]

SettledAtBatchStart(j, keys, old) ==
    [k \in 1..Len(groupsArray) |->
        IF k \notin ImageBatch(j) THEN old[k]
        ELSE IF groupsArray[k].key \in keys THEN "skipped"
        ELSE IF ~groupsArray[k].complete THEN "incomplete"
        ELSE "pending"]

\* a catch block that waits and retries whatever the attempt
AfterFailureAlwaysRetrying(thrown, attempt) ==
    IF thrown.statusCode = TOOMANYREQUESTS
    THEN [st |-> "backoff", attempt |-> attempt, err |-> thrown.code]
    ELSE [st |-> "error", attempt |-> attempt, err |-> thrown.code]

\* the catch block of convertImageToLatexText: wait and retry, or return
\* the error text
AfterFailure(thrown, attempt) ==
    IF thrown.statusCode = TOOMANYREQUESTS /\ attempt < maxRetries
    THEN [st |-> "backoff", attempt |-> attempt, err |-> thrown.code]
    ELSE [st |-> "error", attempt |-> attempt, err |-> thrown.code]

\* a progress write that drops the keys
WriteProgressWithoutKeys(keys) == [exists |-> TRUE, keys |-> {}, pairs |-> <<>>]

\* fs.writeFileSync(progressFile, JSON.stringify({processedKeys, ...}))
WriteProgress(keys) == [exists |-> TRUE, keys |-> keys, pairs |-> <<>>]

\* a batch loop that does not await the batch's promises
BatchNotAwaited == TRUE

\* Promise.all(batchPromises) has resolved
BatchSettled == \A k \in ImageBatch(iImages) : settled[k] # "pending"

\* batchResults.filter(Boolean), as the keys of the pairs, in batch order
BatchPairs(j) ==
    LET P(k) == k \in ImageBatch(j) /\ settled[k] \in {"pair", "errorPair"}
        F[k \in 0..Len(groupsArray)] ==
            IF k = 0 THEN <<>>
            ELSE IF P(k) THEN Append(F[k - 1], groupsArray[k].key) ELSE F[k - 1]
    IN  F[Len(groupsArray)]

\* calls of the provider in flight
InFlight ==
    Cardinality({ks \in (1..Len(groupsArray)) \X Sides : conv[ks[1]][ks[2]].st = "inflight"})

ImagesInit ==
    /\ groupsArray \in Corpora
    /\ progressFile = NoFile
    /\ outputFile = NoFile
    /\ imgPc = "start"
    /\ run = 0
    /\ prevRun = "none"
    /\ processedKeys = {}
    /\ results = <<>>
    /\ iImages = 0
    /\ conv = [k \in 1..Len(groupsArray) |-> [question |-> NoConv, answer |-> NoConv]]
    /\ settled = [k \in 1..Len(groupsArray) |-> "pending"]
    /\ finishedKeys = {}
    /\ ckptWrites = 0
    /\ killedAt = "none"
    /\ ClassifyIdle
    /\ ApiIdle
    /\ GenIdle
    /\ SeedIdle
    /\ CatchIdle
    /\ RestIdle

\* processImagesToLatex up to its first await: the progress file is loaded,
\* the files are grouped and the first batch starts; with no pair at all the
\* run is over at once
ImagesRunStart ==
    /\ imgPc = "start" \/ (imgPc \in {"done", "killed"} /\ run < MaxRuns)
    /\ LET loaded == IF progressFile.exists THEN progressFile.keys ELSE {}
           fresh == [k \in 1..Len(groupsArray) |-> "pending"]
       IN  /\ run' = run + 1
           /\ prevRun' = IF imgPc = "start" THEN "none" ELSE imgPc
           /\ processedKeys' = loaded
           /\ results' = <<>>
           /\ iImages' = 0
           /\ ckptWrites' = 0
           /\ killedAt' = "none"
           /\ conv' = ConvAtBatchStart(0, loaded)
           /\ settled' = SettledAtBatchStart(0, loaded, fresh)
           /\ IF Len(groupsArray) = 0
              THEN /\ imgPc' = "done"
                   /\ outputFile' = [exists |-> TRUE, keys |-> {}, pairs |-> <<>>]
                   /\ progressFile' = NoFile
                   /\ finishedKeys' = {}
              ELSE /\ imgPc' = "batch"
                   /\ UNCHANGED <<outputFile, progressFile, finishedKeys>>
    /\ UNCHANGED <<groupsArray, classifyVars, apiVars, genVars, seedVars, catchVars, restVars>>

\* the provider call of a conversion returns or fails
ConvertReturn(k, side, outcome) ==
    /\ imgPc = "batch"
    /\ k \in 1..Len(groupsArray)
    /\ conv[k][side].st = "inflight"
    /\ LET r == ConvertMathImageToLatex(FALSE, outcome)
       IN  conv' = [conv EXCEPT ![k][side] =
                       IF r.ok THEN Converted
                       ELSE AfterFailure(r.thrown, conv[k][side].attempt)]
    /\ UNCHANGED <<groupsArray, progressFile, outputFile, imgPc, run, prevRun,
                   processedKeys, results, iImages, settled, finishedKeys,
                   ckptWrites, killedAt,
                   classifyVars, apiVars, genVars, seedVars, catchVars, restVars>>

\* the backoff delay of a conversion is over: the next attempt starts
BackoffEnd(k, side) ==
    /\ imgPc = "batch"
    /\ k \in 1..Len(groupsArray)
    /\ conv[k][side].st = "backoff"
    /\ conv' = [conv EXCEPT ![k][side] =
                   [st |-> "inflight", attempt |-> conv[k][side].attempt + 1,
                    err |-> NoCode]]
    /\ UNCHANGED <<groupsArray, progressFile, outputFile, imgPc, run, prevRun,
                   processedKeys, results, iImages, settled, finishedKeys,
                   ckptWrites, killedAt,
                   classifyVars, apiVars, genVars, seedVars, catchVars, restVars>>

\* both conversions of an item have resolved: processedKeys.add(key) and the
\* item resolves to its pair
ItemSettle(k) ==
    /\ imgPc = "batch"
    /\ k \in 1..Len(groupsArray)
    /\ settled[k] = "pending"
    /\ \A side \in Sides : conv[k][side].st \in {"ok", "error"}
    /\ processedKeys' = processedKeys \cup {groupsArray[k].key}
    /\ settled' = [settled EXCEPT ![k] =
                      IF \A side \in Sides : conv[k][side].st = "ok"
                      THEN "pair" ELSE "errorPair"]
    /\ conv' = [conv EXCEPT ![k] = [question |-> NoConv, answer |-> NoConv]]
    /\ UNCHANGED <<groupsArray, progressFile, outputFile, imgPc, run, prevRun,
                   results, iImages, finishedKeys, ckptWrites, killedAt,
                   classifyVars, apiVars, genVars, seedVars, catchVars, restVars>>

\* the batch has resolved: its pairs are pushed to results and the progress
\* file is written
BatchWrite ==
    /\ imgPc = "batch"
    /\ BatchSettled
    /\ results' = results \o BatchPairs(iImages)
    /\ progressFile' = WriteProgress(processedKeys)
    /\ ckptWrites' = ckptWrites + 1
    /\ finishedKeys' = finishedKeys \cup
          {groupsArray[k].key : k \in {m \in ImageBatch(iImages) : groupsArray[m].complete}}
    /\ imgPc' = IF iImages + BATCH_SIZE_IMAGES < Len(groupsArray) THEN "delay" ELSE "written"
    /\ UNCHANGED <<groupsArray, outputFile, run, prevRun, processedKeys, iImages,
                   conv, settled, killedAt,
                   classifyVars, apiVars, genVars, seedVars, catchVars, restVars>>

\* the delay between two batches is over: the next batch starts
NextBatch ==
    /\ imgPc = "delay"
    /\ iImages' = iImages + BATCH_SIZE_IMAGES
    /\ conv' = ConvAtBatchStart(iImages + BATCH_SIZE_IMAGES, processedKeys)
    /\ settled' = SettledAtBatchStart(iImages + BATCH_SIZE_IMAGES, processedKeys, settled)
    /\ imgPc' = "batch"
    /\ UNCHANGED <<groupsArray, progressFile, outputFile, run, prevRun, processedKeys,
                   results, finishedKeys, ckptWrites, killedAt,
                   classifyVars, apiVars, genVars, seedVars, catchVars, restVars>>

\* after the last batch: the output file is written and the progress file
\* is deleted
ImagesFinish ==
    /\ imgPc = "written"
    /\ outputFile' = [exists |-> TRUE, keys |-> {}, pairs |-> results]
    /\ progressFile' = NoFile
    /\ finishedKeys' = {}
    /\ imgPc' = "done"
    /\ UNCHANGED <<groupsArray, run, prevRun, processedKeys, results, iImages,
                   conv, settled, ckptWrites, killedAt,
                   classifyVars, apiVars, genVars, seedVars, catchVars, restVars>>

\* the process is killed: what it held in memory is gone, the files stay
ImagesKill ==
    /\ imgPc \in {"batch", "delay", "written"}
    /\ killedAt' = imgPc
    /\ imgPc' = "killed"
    /\ processedKeys' = {}
    /\ results' = <<>>
    /\ iImages' = 0
    /\ conv' = [k \in 1..Len(groupsArray) |-> [question |-> NoConv, answer |-> NoConv]]
    /\ settled' = [k \in 1..Len(groupsArray) |-> "pending"]
    /\ UNCHANGED <<groupsArray, progressFile, outputFile, run, prevRun, finishedKeys,
                   ckptWrites,
                   classifyVars, apiVars, genVars, seedVars, catchVars, restVars>>

ImagesNext ==
    \/ ImagesRunStart
    \/ \E k \in 1..MaxGroups, side \in Sides, outcome \in PipelineOutcomes :
          ConvertReturn(k, side, outcome)
    \/ \E k \in 1..MaxGroups, side \in Sides : BackoffEnd(k, side)
    \/ \E k \in 1..MaxGroups : ItemSettle(k)
    \/ BatchWrite
    \/ NextBatch
    \/ ImagesFinish
    \/ ImagesKill

SpecImages == ImagesInit /\ [][ImagesNext]_vars

\* every step of the pipeline itself: all but the kill
ImagesProgress ==
    \/ ImagesRunStart
    \/ \E k \in 1..MaxGroups, side \in Sides, outcome \in PipelineOutcomes :
          ConvertReturn(k, side, outcome)
    \/ \E k \in 1..MaxGroups, side \in Sides : BackoffEnd(k, side)
    \/ \E k \in 1..MaxGroups : ItemSettle(k)
    \/ BatchWrite
    \/ NextBatch
    \/ ImagesFinish

\* the keys of the complete pairs of the first j batches
KeysOfBatches(j) ==
    {groupsArray[k].key :
        k \in {m \in 1..Len(groupsArray) :
                  m <= j * BATCH_SIZE_IMAGES /\ groupsArray[m].complete}}

\* where a first run that has written j progress files may be killed
KillPoints(j) ==
    {pt \in {"batch", "delay", "written"} :
        \/ pt = "batch" /\ j * BATCH_SIZE_IMAGES < Len(groupsArray)
        \/ pt = "delay" /\ j > 0 /\ j * BATCH_SIZE_IMAGES < Len(groupsArray)
        \/ pt = "written" /\ j > 0 /\ j * BATCH_SIZE_IMAGES >= Len(groupsArray)}

\* the states a first run leaves when it is killed after j batches: a
\* progress file holding the keys of those batches if j > 0, none if the run
\* was killed in its first batch
ImagesKilledInit ==
    /\ groupsArray \in Corpora
    /\ Len(groupsArray) > 0
    /\ \E j \in 0..MaxGroups :
          /\ killedAt \in KillPoints(j)
          /\ ckptWrites = j
          /\ finishedKeys = KeysOfBatches(j)
          /\ progressFile = IF j = 0 THEN NoFile ELSE WriteProgress(KeysOfBatches(j))
    /\ outputFile = NoFile
    /\ imgPc = "killed"
    /\ run = MaxRuns - 1
    /\ prevRun = "none"
    /\ processedKeys = {}
    /\ results = <<>>
    /\ iImages = 0
    /\ conv = [k \in 1..Len(groupsArray) |-> [question |-> NoConv, answer |-> NoConv]]
    /\ settled = [k \in 1..Len(groupsArray) |-> "pending"]
    /\ ClassifyIdle
    /\ ApiIdle
    /\ GenIdle
    /\ SeedIdle
    /\ CatchIdle
    /\ RestIdle

\* the last run of the pipeline, started where a killed run left off, under
\* a provider whose every call returns or fails, timers that fire and an
\* event loop that runs every continuation that is ready; the run is not
\* killed
SpecImagesFair ==
    ImagesKilledInit /\ [][ImagesProgress]_vars /\ WF_vars(ImagesProgress)

\* ------------------------------------------------------------------------
\* Specification of the handlers' catch blocks: one thrown value, caught by
\* each request handler in turn (controller/embeddingController.ts,
\* controller/mathImageController.ts)
\* ------------------------------------------------------------------------
\* the catch block of getEmbeddings
GetEmbeddingsCatch(thrown) ==
    IF IsEmbeddingError(thrown) THEN TypedEnvelope(thrown)
    ELSE ErrorEnvelope(INTERNALSERVERERROR, <<"Failed to fetch embeddings", "">>,
                       "FETCH_ERROR", FALSE)

\* the catch block of convertImageToLatex
ConvertImageToLatexCatch(thrown) ==
    IF IsEmbeddingError(thrown) THEN TypedEnvelope(thrown)
    ELSE IF thrown.name \in {"Error", "TypeError"}
    THEN ErrorEnvelope(BADREQUEST, thrown.message, "VALIDATION_ERROR", FALSE)
    ELSE ErrorEnvelope(INTERNALSERVERERROR, <<"Internal server error", "">>,
                       "INTERNAL_ERROR", FALSE)

\* a thrown value that is not an Error
ThrownString == [PlainError(<<"thrown text", "">>) EXCEPT !.name = "string"]

\* the typed failures the services and the gateway construct
TypedFailures ==
    {HandleOpenAIError(e) : e \in ProviderErrors}
    \cup {HandleOpenAIErrorImage(e) : e \in ProviderErrors}
    \cup {ConvertMathImageToLatexCatch(e) : e \in ProviderErrors}
    \cup {ModelCreateCatch(m) : m \in DbErrorMessages}
    \cup {ConvertMathImageToLatex(TRUE, o).thrown : o \in ImageOutcomes}
    \cup {ConvertMathImageToLatex(FALSE, o).thrown : o \in {x \in ImageOutcomes : x.ok /\ x.content = ""}}
    \cup {NotFoundError}

\* what a handler's try block may throw
ThrownValues ==
    TypedFailures \cup {PlainError(<<"Unexpected token", "">>), TypeError, ThrownString}

Caught(handler, env) ==
    /\ hOut' = [handler |-> handler, env |-> env]
    /\ UNCHANGED <<hThrown, classifyVars, apiVars, genVars, seedVars, imageVars, restVars>>

CatchInit ==
    /\ hThrown \in ThrownValues
    /\ hOut = [handler |-> "none", env |-> Pending]
    /\ ClassifyIdle
    /\ ApiIdle
    /\ GenIdle
    /\ SeedIdle
    /\ ImagesIdle
    /\ RestIdle

CatchCreateEmbedding == Caught("createEmbedding", CreateEmbeddingCatch(hThrown))

CatchGetEmbeddings == Caught("getEmbeddings", GetEmbeddingsCatch(hThrown))

CatchGetEmbeddingById == Caught("getEmbeddingById", GetEmbeddingByIdCatch(hThrown))

CatchUpdateEmbedding == Caught("updateEmbedding", UpdateEmbeddingCatch(hThrown))

CatchDeleteEmbedding == Caught("deleteEmbedding", DeleteEmbeddingCatch(hThrown))

CatchConvertImageToLatex == Caught("convertImageToLatex", ConvertImageToLatexCatch(hThrown))

CatchNext ==
    \/ CatchCreateEmbedding
    \/ CatchGetEmbeddings
    \/ CatchGetEmbeddingById
    \/ CatchUpdateEmbedding
    \/ CatchDeleteEmbedding
    \/ CatchConvertImageToLatex

SpecCatch == CatchInit /\ [][CatchNext]_vars

\* ------------------------------------------------------------------------
\* Specification of the component boundaries: one call of a function of the
\* embedding service, of the image service or of EmbeddingModel, on a table
\* and inputs drawn from bounded sets
\* ------------------------------------------------------------------------
\* rows a table of this specification may hold
MaxRows == 3

\* created_at of the rows: the instants of their inserts, all different
Instants == 1..MaxRows

\* a row as SELECT * returns it, created at instant t
StoredRow(id, t) ==
    [id |-> id, question |-> "q" \o ToString(id), answer |-> "a" \o ToString(id),
     embedding |-> [len |-> EMBEDDING_DIM,
                    of |-> CombinedText("q" \o ToString(id), "a" \o ToString(id))],
     createdAt |-> t]

\* the tables of up to MaxRows rows: ids and instants of creation in any
\* order relative to each other
Tables ==
    {[id \in DOMAIN at |-> StoredRow(id, at[id])] :
        at \in {f \in UNION {[S -> Instants] : S \in SUBSET (1..MaxRows)} :
                   \A x, y \in DOMAIN f : x # y => f[x] # f[y]}}

\* the id the table's default generates for a new row
FreshId(tbl) == CHOOSE id \in 1..(MaxRows + 1) : id \notin DOMAIN tbl

\* parseInt of a query parameter
ParseInt(text) ==
    CASE text = "0" -> 0
      [] text = "1" -> 1
      [] text = "2" -> 2
      [] text = "3" -> 3

\* query strings of GET /embeddings
Queries == [limit : {UNDEF, "0", "1", "2", "3"}, offset : {UNDEF, "0", "1", "2"}]

\* the limit and the offset getEmbeddings hands to findAll
GetEmbeddingsArgs(query) ==
    [limit |-> IF Falsy(query.limit) THEN 10 ELSE ParseInt(query.limit),
     offset |-> IF Falsy(query.offset) THEN 0 ELSE ParseInt(query.offset)]

\* SELECT * FROM questions ORDER BY created_at: the ids of the rows in order
OrderByCreatedAt(tbl) ==
    CHOOSE s \in [1..Cardinality(DOMAIN tbl) -> DOMAIN tbl] :
        \A m, n \in DOMAIN s : m < n => tbl[s[m]].createdAt < tbl[s[n]].createdAt

\* ... LIMIT limit OFFSET offset
LimitOffset(s, limit, offset) ==
    SubSeq(s, offset + 1, IF offset + limit < Len(s) THEN offset + limit ELSE Len(s))

\* an entry of the list findAll returns
ListEntry(row) ==
    [id |-> row.id, question |-> row.question, answer |-> row.answer,
     createdAt |-> row.createdAt]

\* the result of a call that threw
Thrown(thrown, tbl) == [NoResult EXCEPT !.ok = FALSE, !.thrown = thrown, !.tbl = tbl]

\* the result of an EmbeddingModel call that returns ModelOk or ModelThrew
Result(r) == [NoResult EXCEPT !.ok = r.ok, !.thrown = r.thrown, !.tbl = r.tbl, !.row = r.row]

\* a findAll whose pagination.total is the table's row count
ModelFindAllCountingTable(tbl, limit, offset, fault) ==
    IF fault # "none"
    THEN Thrown(EmbeddingError(<<"Failed to fetch embeddings: ", fault>>,
                               "DATABASE_ERROR", INTERNALSERVERERROR, TRUE), tbl)
    ELSE LET ids == LimitOffset(OrderByCreatedAt(tbl), limit, offset)
         IN  [NoResult EXCEPT !.tbl = tbl,
                              !.data = [n \in DOMAIN ids |-> ListEntry(tbl[ids[n]])],
                              !.total = Cardinality(DOMAIN tbl)]

\* EmbeddingModel.findAll(limit, offset)
ModelFindAll(tbl, limit, offset, fault) ==
    IF fault # "none"
    THEN Thrown(EmbeddingError(<<"Failed to fetch embeddings: ", fault>>,
                               "DATABASE_ERROR", INTERNALSERVERERROR, TRUE), tbl)
    ELSE LET ids == LimitOffset(OrderByCreatedAt(tbl), limit, offset)
             data == [n \in DOMAIN ids |-> ListEntry(tbl[ids[n]])]
         IN  [NoResult EXCEPT !.tbl = tbl, !.data = data, !.total = Len(data)]

\* EmbeddingModel.count()
ModelCount(tbl, fault) ==
    IF fault # "none"
    THEN Thrown(EmbeddingError(<<"Failed to count embeddings: ", fault>>,
                               "DATABASE_ERROR", INTERNALSERVERERROR, TRUE), tbl)
    ELSE [NoResult EXCEPT !.tbl = tbl, !.total = Cardinality(DOMAIN tbl)]

\* a behaviour is one call: it is recorded with its result
Called(call, res) ==
    /\ bCall = NoCall
    /\ bCall' = call
    /\ bRes' = res
    /\ UNCHANGED <<bTbl, classifyVars, apiVars, genVars, seedVars, catchVars,
                   imageVars, updateVars>>

BoundaryInit ==
    /\ bTbl \in Tables
    /\ bCall = NoCall
    /\ bRes = NoResult
    /\ ClassifyIdle
    /\ ApiIdle
    /\ GenIdle
    /\ SeedIdle
    /\ CatchIdle
    /\ ImagesIdle
    /\ UpdateIdle

\* EmbeddingModel.create(question, answer, embedding)
BoundaryCreate(len, fault) ==
    /\ Cardinality(DOMAIN bTbl) < MaxRows
    /\ LET embedding == [len |-> len, of |-> CombinedText("q", "a")]
           id == FreshId(bTbl)
           row == [id |-> id, question |-> "q", answer |-> "a", embedding |-> embedding]
       IN  Called([NoCall EXCEPT !.fn = "create", !.id = id,
                                 !.fault = DbInsertError(row, fault)],
                  Result(ModelCreate(bTbl, id, "q", "a", embedding, fault)))

\* getEmbeddings({query}) up to the return of EmbeddingModel.findAll
BoundaryFindAll(query, fault) ==
    LET args == GetEmbeddingsArgs(query)
    IN  Called([NoCall EXCEPT !.fn = "findAll", !.fault = fault,
                              !.limit = args.limit, !.offset = args.offset,
                              !.named = ~Falsy(query.limit)],
               ModelFindAll(bTbl, args.limit, args.offset, fault))

\* EmbeddingModel.findById(id)
BoundaryFindById(id, fault) ==
    Called([NoCall EXCEPT !.fn = "findById", !.id = id, !.fault = fault],
           Result(ModelFindById(bTbl, id, fault)))

\* EmbeddingModel.update(id, updates)
BoundaryUpdate(id, updates, fault) ==
    Called([NoCall EXCEPT !.fn = "update", !.id = id, !.fault = fault],
           Result(ModelUpdate(bTbl, id, updates, fault)))

\* EmbeddingModel.delete(id)
BoundaryDelete(id, fault) ==
    Called([NoCall EXCEPT !.fn = "delete", !.id = id, !.fault = fault],
           Result(ModelDelete(bTbl, id, fault)))

\* EmbeddingModel.count()
BoundaryCount(fault) ==
    Called([NoCall EXCEPT !.fn = "count", !.fault = fault], ModelCount(bTbl, fault))

\* generateEmbeddings(text)
BoundaryGenerateEmbeddings(outcome) ==
    LET g == GenerateEmbeddings(CombinedText("q", "a"), outcome)
    IN  Called([NoCall EXCEPT !.fn = "generateEmbeddings"],
               [NoResult EXCEPT !.ok = g.ok, !.thrown = g.thrown, !.tbl = bTbl])

\* generateCombinedEmbedding(question, answer)
BoundaryGenerateCombinedEmbedding(question, outcome) ==
    LET g == GenerateCombinedEmbedding(question, "a", outcome)
    IN  Called([NoCall EXCEPT !.fn = "generateCombinedEmbedding"],
               [NoResult EXCEPT !.ok = g.ok, !.thrown = g.thrown, !.tbl = bTbl])

\* convertMathImageToLatex(imageBuffer)
BoundaryConvertMathImageToLatex(bufferEmpty, outcome) ==
    LET c == ConvertMathImageToLatex(bufferEmpty, outcome)
    IN  Called([NoCall EXCEPT !.fn = "convertMathImageToLatex"],
               [NoResult EXCEPT !.ok = c.ok, !.thrown = c.thrown, !.tbl = bTbl])

\* what the provider call of the image service may end in: a content or any
\* provider error
BoundaryImageOutcomes ==
    {o \in ImageOutcomes : o.ok}
    \cup [ok : {FALSE}, content : {""}, error : ProviderErrors]

BoundaryNext ==
    \/ \E len \in {EMBEDDING_DIM, EMBEDDING_DIM + 1}, fault \in DbFaults :
          BoundaryCreate(len, fault)
    \/ \E query \in Queries, fault \in QueryFaults : BoundaryFindAll(query, fault)
    \/ \E id \in 1..MaxRows, fault \in QueryFaults : BoundaryFindById(id, fault)
    \/ \E id \in 1..MaxRows, updates \in UpdateBodies, fault \in QueryFaults :
          BoundaryUpdate(id, updates, fault)
    \/ \E id \in 1..MaxRows, fault \in QueryFaults : BoundaryDelete(id, fault)
    \/ \E fault \in QueryFaults : BoundaryCount(fault)
    \/ \E outcome \in GenOutcomes : BoundaryGenerateEmbeddings(outcome)
    \/ \E question \in GenTexts, outcome \in GenOutcomes :
          BoundaryGenerateCombinedEmbedding(question, outcome)
    \/ \E bufferEmpty \in BOOLEAN, outcome \in BoundaryImageOutcomes :
          BoundaryConvertMathImageToLatex(bufferEmpty, outcome)

SpecBoundary == BoundaryInit /\ [][BoundaryNext]_vars

\* ------------------------------------------------------------------------
\* Specification of concurrent updates: updateEmbedding requests served at
\* the same time over one table.  A handler runs from one await on the
\* datastore to the next as one step (its provider call belongs to the step
\* that awaits it), and the steps of the requests interleave in any order.
\* The updated_at column, which constrains nothing here, is left out.
\* ------------------------------------------------------------------------
\* requests served at the same time
MaxRequests == 2

Requests == 1..MaxRequests

\* the table the requests are served on
UpdateTable == [id \in 1..2 |-> StoredRow(id, id)]

\* a request not yet served: PUT /embeddings/:id with a body
NewRequest(id, body) ==
    [pc |-> "start", id |-> id, body |-> body, question |-> UNDEF, answer |-> UNDEF,
     env |-> Pending]

\* the handler has returned env
Responded(req, env) == [req EXCEPT !.pc = "done", !.env = env]

UpdateInit ==
    /\ uRows = UpdateTable
    /\ uReq \in [Requests -> {NewRequest(id, body) :
                                 id \in {NoId, 1, 2}, body \in UpdateBodies}]
    /\ ClassifyIdle
    /\ ApiIdle
    /\ GenIdle
    /\ SeedIdle
    /\ CatchIdle
    /\ ImagesIdle
    /\ BoundaryIdle

\* updateEmbedding without an id
PutMissingId(r) ==
    /\ uReq[r].pc = "start"
    /\ uReq[r].id = NoId
    /\ uReq' = [uReq EXCEPT ![r] =
                   Responded(@, ErrorEnvelope(BADREQUEST, <<"Embedding ID is required", "">>,
                                              "MISSING_ID", FALSE))]
    /\ UNCHANGED <<uRows, classifyVars, apiVars, genVars, seedVars, catchVars,
                   imageVars, boundaryVars>>

\* updateEmbedding when the body names a question or an answer, up to its
\* await of EmbeddingModel.update: the record is read, the fields the body
\* lacks are taken from it and the embedding is generated
PutRead(r, fault, outcome) ==
    /\ uReq[r].pc = "start"
    /\ uReq[r].id # NoId
    /\ ~Falsy(uReq[r].body.question) \/ ~Falsy(uReq[r].body.answer)
    /\ LET body == uReq[r].body
           found == ModelFindById(uRows, uReq[r].id, fault)
           question == IF Falsy(body.question) THEN found.row.question ELSE body.question
           answer == IF Falsy(body.answer) THEN found.row.answer ELSE body.answer
           g == GenerateCombinedEmbedding(question, answer, outcome)
       IN  uReq' = [uReq EXCEPT ![r] =
                       IF ~found.ok THEN Responded(@, UpdateEmbeddingCatch(found.thrown))
                       ELSE IF ~g.ok THEN Responded(@, UpdateEmbeddingCatch(g.thrown))
                       ELSE [@ EXCEPT !.pc = "write", !.question = question,
                                      !.answer = answer]]
    /\ UNCHANGED <<uRows, classifyVars, apiVars, genVars, seedVars, catchVars,
                   imageVars, boundaryVars>>

\* updateEmbedding from EmbeddingModel.update(id, {question, answer}) to its
\* response
PutWrite(r, fault) ==
    /\ uReq[r].pc = "write"
    /\ LET updates == [question |-> uReq[r].question, answer |-> uReq[r].answer]
           u == ModelUpdate(uRows, uReq[r].id, updates, fault)
       IN  /\ uRows' = u.tbl
           /\ uReq' = [uReq EXCEPT ![r] =
                          Responded(@, IF u.ok
                                       THEN SuccessEnvelope(SUCCESSWITHBODY,
                                                            WithoutEmbedding(u.row))
                                       ELSE UpdateEmbeddingCatch(u.thrown))]
    /\ UNCHANGED <<classifyVars, apiVars, genVars, seedVars, catchVars,
                   imageVars, boundaryVars>>

\* updateEmbedding when the body names neither a question nor an answer:
\* EmbeddingModel.update(id, body)
PutDirect(r, fault) ==
    /\ uReq[r].pc = "start"
    /\ uReq[r].id # NoId
    /\ Falsy(uReq[r].body.question) /\ Falsy(uReq[r].body.answer)
    /\ LET u == ModelUpdate(uRows, uReq[r].id, uReq[r].body, fault)
       IN  /\ uRows' = u.tbl
           /\ uReq' = [uReq EXCEPT ![r] =
                          Responded(@, IF u.ok
                                       THEN SuccessEnvelope(SUCCESSWITHBODY,
                                                            WithoutEmbedding(u.row))
                                       ELSE UpdateEmbeddingCatch(u.thrown))]
    /\ UNCHANGED <<classifyVars, apiVars, genVars, seedVars, catchVars,
                   imageVars, boundaryVars>>

UpdateNext ==
    \/ \E r \in Requests : PutMissingId(r)
    \/ \E r \in Requests, fault \in QueryFaults, outcome \in ApiOutcomes :
          PutRead(r, fault, outcome)
    \/ \E r \in Requests, fault \in QueryFaults : PutWrite(r, fault)
    \/ \E r \in Requests, fault \in QueryFaults : PutDirect(r, fault)

SpecUpdate == UpdateInit /\ [][UpdateNext]_vars

\* ------------------------------------------------------------------------
\* Properties
\* ------------------------------------------------------------------------
\* C1: after a successful updateEmbedding that leaves the record with a
\* question and an answer, the stored embedding is the one generated for the
\* record's current question+answer text.
C1_UpdateStoresRegeneratedEmbedding ==
    (/\ last.op = "updateEmbedding"
     /\ last.env.statusCode = SUCCESSWITHBODY
     /\ last.id \in DOMAIN rows
     /\ ~Falsy(rows[last.id].question)
     /\ ~Falsy(rows[last.id].answer)) =>
        rows[last.id].embedding.of =
            CombinedText(rows[last.id].question, rows[last.id].answer)

\* C2: on every write path (createEmbedding through EmbeddingModel.create and
\* the batch insert of seedEmbeddings) no INSERT is issued with a vector
\* whose length is not 1536.
C2_OnlyFullLengthVectorsInserted == \A len \in issued : len = EMBEDDING_DIM

\* the two provider error classifiers (both named handleOpenAIError)
ClassifierRan == cOut.fn \in {"embedding", "image"}

\* C3: for every provider error whose status is 401, whatever its code, the
\* classifier raises InvalidCredential (INVALID_API_KEY, 401, not retryable)
\* and no other kind.
C3_Status401IsInvalidCredential ==
    (ClassifierRan /\ cErr.status = 401) =>
        /\ cOut.thrown.code = "INVALID_API_KEY"
        /\ cOut.thrown.statusCode = 401
        /\ cOut.thrown.retryable = FALSE

\* C4: for every provider error whose status is 429, the classifier raises
\* QuotaExceeded (not retryable) when the code is insufficient_quota and
\* RateLimited (retryable) for every other code, an absent one included.
C4_Status429QuotaOrRateLimit ==
    (ClassifierRan /\ cErr.status = 429) =>
        IF cErr.code = "insufficient_quota"
        THEN cOut.thrown.code = "QUOTA_EXCEEDED" /\ cOut.thrown.retryable = FALSE
        ELSE cOut.thrown.code = "RATE_LIMIT" /\ cOut.thrown.retryable = TRUE

\* C5: for every provider error that is neither 401 nor 429, a status >= 500
\* or a connection-reset/timeout/DNS code makes the classifier raise
\* NetworkUnavailable (NETWORK_ERROR, 503, retryable), in the embedding
\* classifier and in the image-to-text classifier alike.
C5_ServerOrNetworkIsNetworkUnavailable ==
    (/\ ClassifierRan
     /\ cErr.status \notin {401, 429}
     /\ (cErr.status >= 500 \/ cErr.code \in NetworkCodes)) =>
        /\ cOut.thrown.code = "NETWORK_ERROR"
        /\ cOut.thrown.statusCode = 503
        /\ cOut.thrown.retryable = TRUE

\* C6: a provider error matching none of the earlier rules (not 401, not
\* 429, status below 500 or absent, no network code) is raised as an
\* Unclassified failure whose statusCode is the error's own status (500 when
\* absent), which is retryable and whose message carries the original message.
C6_UnclassifiedKeepsStatusAndMessage ==
    (/\ ClassifierRan
     /\ cErr.status \notin {401, 429}
     /\ cErr.status < 500
     /\ cErr.code \notin NetworkCodes) =>
        /\ cOut.thrown.code \in {"EMBEDDING_GENERATION_FAILED", "OPENAI_API_ERROR"}
        /\ cOut.thrown.statusCode = (IF cErr.status = NoStatus THEN 500 ELSE cErr.status)
        /\ cOut.thrown.retryable = TRUE
        /\ (~Falsy(cErr.message) => cOut.thrown.message[2] = cErr.message)

\* getEmbeddingById has just answered for last.id
Fetched == last.op = "getEmbeddingById"

\* C7: whenever question or answer is empty or missing,
\* generateCombinedEmbedding fails with ValidationFailed (VALIDATION_ERROR,
\* 400, not retryable) and createEmbedding returns a 400 error envelope, in
\* both cases without a call to the provider and without a row written.
C7_EmptyInputIsValidationFailedWithoutCall ==
    last.invalid =>
        /\ last.env.statusCode = BADREQUEST
        /\ last.env.code = "VALIDATION_ERROR"
        /\ last.env.retryable = FALSE
        /\ ~last.called
        /\ ~last.wrote
        /\ last.insertLen = 0

\* generateCombinedEmbedding was called with an empty question, from
\* updateEmbedding on a record whose question an earlier update had emptied
C7_Witness ==
    /\ last.op = "updateEmbedding"
    /\ last.invalid
    /\ last.id \in DOMAIN rows
    /\ rows[last.id].question = ""
    /\ last.env.code = "VALIDATION_ERROR"

\* C8 as stated: if the provider returns a vector whose length is not 1536,
\* generateEmbeddings and generateCombinedEmbedding each fail with
\* ValidationFailed (VALIDATION_ERROR, 400, not retryable).
C8_WrongLengthFailsInBoth ==
    (/\ gOut.fn # "none"
     /\ gOut.result.called
     /\ gIn.outcome.ok
     /\ gIn.outcome.len # EMBEDDING_DIM) =>
        /\ ~gOut.result.ok
        /\ gOut.result.thrown.code = "VALIDATION_ERROR"
        /\ gOut.result.thrown.statusCode = BADREQUEST
        /\ gOut.result.thrown.retryable = FALSE

\* C8 amended: if the provider returns a vector whose length is not 1536,
\* generateCombinedEmbedding fails with ValidationFailed (VALIDATION_ERROR,
\* 400, not retryable), while generateEmbeddings returns the vector to its
\* caller unmodified.
C8_WrongLengthFailsInCombinedOnly ==
    (/\ gOut.fn # "none"
     /\ gOut.result.called
     /\ gIn.outcome.ok
     /\ gIn.outcome.len # EMBEDDING_DIM) =>
        IF gOut.fn = "generateCombinedEmbedding"
        THEN /\ ~gOut.result.ok
             /\ gOut.result.thrown.name = "EmbeddingError"
             /\ gOut.result.thrown.code = "VALIDATION_ERROR"
             /\ gOut.result.thrown.statusCode = BADREQUEST
             /\ gOut.result.thrown.retryable = FALSE
        ELSE /\ gOut.result.ok
             /\ gOut.result.value =
                   [len |-> gIn.outcome.len,
                    of |-> CombinedText(gIn.question, gIn.answer)]

C8_Witness ==
    /\ gOut.fn = "generateCombinedEmbedding"
    /\ gOut.result.called
    /\ gIn.outcome.ok
    /\ gIn.outcome.len = EMBEDDING_DIM + 1
    /\ ~gOut.result.ok

C10_FindByIdAfterDeleteIsNotFound ==
    (Fetched /\ last.id \in deleted) =>
        /\ last.env.code = "NOT_FOUND"
        /\ last.env.statusCode = NOTFOUND
        /\ last.env.retryable = FALSE

\* C10 amended: after a successful EmbeddingModel.delete(id) no later
\* findById(id) returns a record: it fails with NotFound (NOT_FOUND, 404,
\* not retryable) when the datastore answers the query and with
\* StorageFailed (DATABASE_ERROR, 500, retryable) when the query itself
\* fails, and getEmbeddingById returns that failure as its envelope; ids are
\* never reused, so a deleted id is in the table never again.
C10_FindByIdAfterDeleteNeverFinds ==
    /\ \A id \in deleted : id \notin DOMAIN rows /\ id < nextId
    /\ (Fetched /\ last.id \in deleted) =>
          \/ /\ last.env.code = "NOT_FOUND"
             /\ last.env.statusCode = NOTFOUND
             /\ last.env.retryable = FALSE
          \/ /\ last.env.code = "DATABASE_ERROR"
             /\ last.env.statusCode = INTERNALSERVERERROR
             /\ last.env.retryable = TRUE
             /\ last.env.error[2] \in QueryFaults \ {"none"}

\* a lookup of a deleted id after a later create
C10_Witness ==
    /\ Fetched
    /\ last.id \in deleted
    /\ last.env.code = "NOT_FOUND"
    /\ \E id \in DOMAIN rows : id > last.id

\* the conversions of the items of the image pipeline
Conversions == (1..Len(groupsArray)) \X Sides

\* C11: when the pipeline has run to completion and is run again over the
\* same corpus, the second run processes no item: no conversion is made and
\* no pair is produced, every item being skipped.
C11_SecondRunProcessesNothing ==
    prevRun = "done" =>
        /\ InFlight = 0
        /\ results = <<>>
        /\ \A k \in 1..Len(groupsArray) : settled[k] \notin {"pair", "errorPair"}

\* C12: an attempt that fails with RateLimited or NetworkUnavailable before
\* the maximum number of attempts is followed by another attempt of the same
\* item: a conversion gives up on such a failure only at its last attempt.
C12_TransientFailureIsRetried ==
    \A ks \in Conversions :
        (/\ conv[ks[1]][ks[2]].st = "error"
         /\ conv[ks[1]][ks[2]].err \in {"RATE_LIMIT", "NETWORK_ERROR"}) =>
            conv[ks[1]][ks[2]].attempt = maxRetries

\* C13: a failure of any kind other than RateLimited or NetworkUnavailable
\* is terminal at once: no conversion waits to retry after such a failure.
C13_OtherFailureIsTerminal ==
    \A ks \in Conversions :
        conv[ks[1]][ks[2]].st = "backoff" =>
            conv[ks[1]][ks[2]].err \in {"RATE_LIMIT", "NETWORK_ERROR"}

\* the items of the batches started so far in this run
Started == {k \in 1..Len(groupsArray) : k <= iImages + BATCH_SIZE_IMAGES}

\* the keys of the pairs pushed to results
ResultKeys == {results[n] : n \in 1..Len(results)}

\* C14: an item that failed terminally (one of its conversions ended in an
\* error) is recorded as failed, never among the processed pairs, and the
\* other items of its batch are still processed before the batch ends.
C14_FailedItemIsRecordedFailed ==
    /\ \A k \in 1..Len(groupsArray) :
          settled[k] = "errorPair" => groupsArray[k].key \notin ResultKeys
    /\ imgPc \in {"delay", "written"} => \A k \in Started : settled[k] # "pending"

\* C15: every key in processedKeys, in memory and in the written progress
\* file, belongs to an item whose conversions all succeeded: the key of an
\* item with a failed conversion is in neither.
C15_ProcessedKeysAreSucceeded ==
    \A k \in 1..Len(groupsArray) :
        settled[k] = "errorPair" =>
            /\ groupsArray[k].key \notin processedKeys
            /\ groupsArray[k].key \notin progressFile.keys

C17_BatchesAreSequential ==
    /\ \A k \in 1..Len(groupsArray) :
          (\/ settled[k] # "pending"
           \/ \E side \in Sides : conv[k][side] # NoConv) => k \in Started
    /\ imgPc = "batch" => ckptWrites * BATCH_SIZE_IMAGES = iImages
    /\ imgPc \in {"delay", "written"} =>
          /\ \A k \in Started : settled[k] # "pending"
          /\ \A ks \in Conversions : conv[ks[1]][ks[2]] = NoConv
          /\ ckptWrites * BATCH_SIZE_IMAGES = iImages + BATCH_SIZE_IMAGES
          /\ progressFile.keys = processedKeys

\* C17 witness: the second batch is converting after the first batch's
\* progress write.
C17_Witness ==
    /\ imgPc = "batch"
    /\ iImages = BATCH_SIZE_IMAGES
    /\ ckptWrites = 1
    /\ InFlight > 0
    /\ progressFile.keys # {}

\* C18: the number of provider calls in flight never exceeds BATCH_SIZE.
C18_InFlightWithinBatchSize == InFlight <= BATCH_SIZE_IMAGES

\* the run-level failures of seedEmbeddings: the health check (run by the
\* first draft only) fails, the corpus file is missing, or it holds no pair
SeedFatal == (draft = 1 /\ ~isHealthy) \/ ~fileExists \/ Len(pairs) = 0

\* C19: on a failed health check, a missing corpus file or an empty corpus,
\* seedEmbeddings exits with code 1 before any item has run: no provider
\* call has been made, no INSERT issued, no row inserted, nothing counted.
C19_FatalAtRunLevel ==
    /\ (SeedFatal /\ seedPc # "start") => seedPc = "exit"
    /\ seedPc = "exit" =>
          /\ SeedFatal
          /\ \A k \in 1..Len(pairs) : batchResults[k] = "pending"
          /\ issued = {}
          /\ rows = EmptyTable
          /\ successCount = 0
          /\ errorCount = 0

\* C19 witness: a run over a non-empty corpus has exited on a failed health
\* check.
C19_Witness ==
    /\ seedPc = "exit"
    /\ draft = 1
    /\ ~isHealthy
    /\ fileExists
    /\ Len(pairs) > 0

\* C20: whenever a handler has caught a typed failure (an EmbeddingError),
\* the envelope it returns carries exactly the failure's statusCode,
\* message, code and retryable flag, and no data.
C20_TypedFailureMappedVerbatim ==
    (hOut.handler # "none" /\ IsEmbeddingError(hThrown)) =>
        /\ hOut.env.statusCode = hThrown.statusCode
        /\ hOut.env.error = hThrown.message
        /\ hOut.env.code = hThrown.code
        /\ hOut.env.retryable = hThrown.retryable
        /\ hOut.env.data = NoRow

\* C20 witness: convertImageToLatex has caught a retryable rate-limit
\* failure and answered 429.
C20_Witness ==
    /\ hOut.handler = "convertImageToLatex"
    /\ hThrown.code = "RATE_LIMIT"
    /\ hOut.env.statusCode = TOOMANYREQUESTS
    /\ hOut.env.retryable

\* C21: in every request handler a caught value that is not an EmbeddingError
\* yields 400 / VALIDATION_ERROR / not retryable if it is an Error with a
\* message, and a 500 envelope otherwise.
C21_UntypedFailureMapping ==
    (hOut.handler # "none" /\ ~IsEmbeddingError(hThrown)) =>
        IF hThrown.name \in {"Error", "TypeError"} /\ hThrown.message # <<"", "">>
        THEN /\ hOut.env.statusCode = BADREQUEST
             /\ hOut.env.code = "VALIDATION_ERROR"
             /\ ~hOut.env.retryable
        ELSE hOut.env.statusCode = INTERNALSERVERERROR

\* the kinds of storage failure, by the message the driver gives them
UniquenessViolations == {"duplicate key value violates unique constraint"}

OtherConstraintViolations == {"violates foreign key constraint", "violates check constraint"}

\* C22: a create that fails leaves the table as it was and throws, for a
\* uniqueness violation, a 409 failure that is not retryable; for any other
\* constraint violation a 400 failure that is not retryable; for every
\* other storage error DATABASE_ERROR / 500 / retryable.
C22_CreateTranslatesStorageFailures ==
    (bCall.fn = "create" /\ bCall.fault # "none") =>
        /\ ~bRes.ok
        /\ IsEmbeddingError(bRes.thrown)
        /\ bRes.tbl = bTbl
        /\ IF bCall.fault \in UniquenessViolations
           THEN /\ bRes.thrown.statusCode = CONFLICT
                /\ bRes.thrown.code = "DUPLICATE_QUESTION"
                /\ ~bRes.thrown.retryable
           ELSE IF bCall.fault \in OtherConstraintViolations
           THEN /\ bRes.thrown.statusCode = BADREQUEST
                /\ ~bRes.thrown.retryable
           ELSE /\ bRes.thrown.code = "DATABASE_ERROR"
                /\ bRes.thrown.statusCode = INTERNALSERVERERROR
                /\ bRes.thrown.retryable

\* C22 witness: a create on a table holding rows has failed on a uniqueness
\* violation and thrown the 409 failure.
C22_Witness ==
    /\ bCall.fn = "create"
    /\ bCall.fault \in UniquenessViolations
    /\ bRes.thrown.statusCode = CONFLICT
    /\ bTbl # EmptyTable

\* the rows of the table created before instant t
CreatedBefore(tbl, t) == {id \in DOMAIN tbl : tbl[id].createdAt < t}

\* C23: findAll(limit, offset) returns at most limit entries, the entries of
\* the rows in ascending order of creation from the offset-th on, and
\* pagination.total is the number of entries of the page; on a table of 3
\* rows, limit 1 and offset 0 give 1 entry and total 1.
C23_FindAllReturnsPage ==
    (bCall.fn = "findAll" /\ bRes.ok) =>
        LET data == bRes.data
            rest == Cardinality(DOMAIN bTbl) - bCall.offset
        IN  /\ Len(data) <= bCall.limit
            /\ Len(data) = IF rest < 0 THEN 0
                           ELSE IF rest < bCall.limit THEN rest ELSE bCall.limit
            /\ \A n \in DOMAIN data :
                  /\ data[n].id \in DOMAIN bTbl
                  /\ data[n] = ListEntry(bTbl[data[n].id])
                  /\ Cardinality(CreatedBefore(bTbl, data[n].createdAt)) =
                        bCall.offset + n - 1
            /\ bRes.total = Len(data)
            /\ (Cardinality(DOMAIN bTbl) = 3 /\ bCall.limit = 1 /\ bCall.offset = 0) =>
                  Len(data) = 1 /\ bRes.total = 1

\* C23 witness: limit=1, offset=0 on a table of 3 rows whose oldest row is
\* not the one of the least id: one entry, total 1.
C23_Witness ==
    /\ bCall.fn = "findAll"
    /\ bCall.named
    /\ bCall.limit = 1
    /\ bCall.offset = 0
    /\ Cardinality(DOMAIN bTbl) = 3
    /\ Len(bRes.data) = 1
    /\ bRes.data[1].id # 1
    /\ bRes.total = 1

\* C24: whatever generateEmbeddings, generateCombinedEmbedding,
\* convertMathImageToLatex or an EmbeddingModel operation throws is an
\* EmbeddingError carrying a code, a status code and a retryable flag.
C24_OnlyTypedFailuresCrossBoundaries ==
    (bCall.fn # "none" /\ ~bRes.ok) =>
        /\ IsEmbeddingError(bRes.thrown)
        /\ bRes.thrown.code # NoCode
        /\ bRes.thrown.statusCode # NoStatus
        /\ bRes.thrown.retryable \in BOOLEAN

\* C24 witness: generateEmbeddings has thrown the typed failure it makes of
\* a provider error it does not recognise.
C24_Witness ==
    /\ bCall.fn = "generateEmbeddings"
    /\ ~bRes.ok
    /\ bRes.thrown.code = "EMBEDDING_GENERATION_FAILED"
    /\ IsEmbeddingError(bRes.thrown)

\* the failures the classifiers, the generator and the gateway construct
RaisedFailures ==
    TypedFailures
    \cup {GenerateCombinedEmbedding(q, "a", o).thrown : q \in GenTexts, o \in ProviderOutcomes}
    \cup {ModelFindAll(EmptyTable, 1, 0, f).thrown : f \in QueryFaults}
    \cup {ModelFindById(EmptyTable, 1, f).thrown : f \in QueryFaults}
    \cup {ModelCount(EmptyTable, f).thrown : f \in QueryFaults}

\* the status code and the retryable flag the error classes fix for their
\* codes
ClassCodes ==
    {"QUOTA_EXCEEDED", "INVALID_API_KEY", "RATE_LIMIT", "NETWORK_ERROR",
     "VALIDATION_ERROR", "DATABASE_ERROR"}

ClassStatus(code) ==
    CASE code = "QUOTA_EXCEEDED" -> TOOMANYREQUESTS
      [] code = "INVALID_API_KEY" -> UNAUTHORIZED
      [] code = "RATE_LIMIT" -> TOOMANYREQUESTS
      [] code = "NETWORK_ERROR" -> SERVICEUNAVAILABLE
      [] code = "VALIDATION_ERROR" -> BADREQUEST
      [] code = "DATABASE_ERROR" -> INTERNALSERVERERROR

ClassRetryable(code) == code \in {"RATE_LIMIT", "NETWORK_ERROR", "DATABASE_ERROR"}

\* the failure thrown agrees, in status code and retryable flag, with every
\* failure of the same code and with its error class
BoundToCode(thrown) ==
    /\ \A f \in RaisedFailures :
          (IsEmbeddingError(f) /\ f.code = thrown.code) =>
              f.statusCode = thrown.statusCode /\ f.retryable = thrown.retryable
    /\ thrown.code \in ClassCodes =>
          /\ thrown.statusCode = ClassStatus(thrown.code)
          /\ thrown.retryable = ClassRetryable(thrown.code)

OnlyQuestion(r) == ~Falsy(uReq[r].body.question) /\ uReq[r].body.answer = UNDEF

\* request r names a new answer and no question
OnlyAnswer(r) == ~Falsy(uReq[r].body.answer) /\ uReq[r].body.question = UNDEF

\* request r completes successfully in this step
Succeeds(r) ==
    /\ uReq[r].pc # "done"
    /\ uReq'[r].pc = "done"
    /\ uReq'[r].env.statusCode = SUCCESSWITHBODY

\* C26: a successful update that names only a new question leaves the
\* answer, the id and the creation time of its record, and every other
\* record, as they were before its write.
C26_QuestionUpdateFrame ==
    [][\A r \in Requests :
          (OnlyQuestion(r) /\ Succeeds(r)) =>
              /\ DOMAIN uRows' = DOMAIN uRows
              /\ uRows'[uReq[r].id].answer = uRows[uReq[r].id].answer
              /\ uRows'[uReq[r].id].id = uRows[uReq[r].id].id
              /\ uRows'[uReq[r].id].createdAt = uRows[uReq[r].id].createdAt
              /\ \A id \in DOMAIN uRows : id # uReq[r].id => uRows'[id] = uRows[id]]_vars

\* C27: once an update naming only a new question and an update naming only
\* a new answer have both completed successfully on the same record, the
\* record holds the new question and the new answer.
C27_BothUpdatesTakeEffect ==
    \A r1, r2 \in Requests :
        (/\ r1 # r2
         /\ uReq[r1].id = uReq[r2].id
         /\ OnlyQuestion(r1) /\ OnlyAnswer(r2)
         /\ uReq[r1].pc = "done" /\ uReq[r1].env.statusCode = SUCCESSWITHBODY
         /\ uReq[r2].pc = "done" /\ uReq[r2].env.statusCode = SUCCESSWITHBODY) =>
            /\ uRows[uReq[r1].id].question = uReq[r1].body.question
            /\ uRows[uReq[r1].id].answer = uReq[r2].body.answer

\* the keys of the pairs written to the output file
OutputKeys == {outputFile.pairs[n] : n \in 1..Len(outputFile.pairs)}

\* C28: when a run resumed after a kill has completed, the output file
\* holds every complete pair of the corpus, those skipped as already
\* processed included.
C28_ResumedOutputIsComplete ==
    (imgPc = "done" /\ prevRun = "killed") =>
        \A k \in 1..Len(groupsArray) :
            groupsArray[k].complete => groupsArray[k].key \in OutputKeys

\* the rows stored for pair k
RowsOfPair(k) ==
    {id \in DOMAIN rows :
        /\ rows[id].question = pairs[k].question
        /\ rows[id].answer = pairs[k].answer}

\* C29: when seedEmbeddings has finished, every pair has been counted once:
\* successCount + errorCount is the number of pairs, the pairs counted as
\* succeeded are those with a row stored (one row each, holding the
\* embedding of the pair's text), and a pair counted as failed has no row.
C29_EveryPairCountedOnce ==
    seedPc = "done" =>
        /\ successCount + errorCount = Len(pairs)
        /\ successCount = Cardinality({k \in 1..Len(pairs) : batchResults[k] = "true"})
        /\ errorCount = Cardinality({k \in 1..Len(pairs) : batchResults[k] = "false"})
        /\ Cardinality(DOMAIN rows) = successCount
        /\ \A k \in 1..Len(pairs) :
              /\ batchResults[k] = "true" =>
                    /\ Cardinality(RowsOfPair(k)) = 1
                    /\ \A id \in RowsOfPair(k) :
                          rows[id].embedding.of =
                              CombinedText(pairs[k].question, pairs[k].answer)
              /\ batchResults[k] = "false" => RowsOfPair(k) = {}

\* C29 witness: a run of two batches has finished with pairs counted as
\* succeeded and pairs counted as failed.
C29_Witness ==
    /\ seedPc = "done"
    /\ Len(pairs) > BATCH_SIZE
    /\ draft = 1
    /\ successCount > 0
    /\ errorCount > 0

\* a run of processImagesToLatex is under way
Running == imgPc \in {"batch", "delay", "written"}

\* C30: no conversion makes more than maxRetries attempts, a batch is left
\* only when each of its items has settled, every batch that starts
\* completes, and the run finishes and stays finished.
C30_RunTerminates ==
    /\ [](\A ks \in Conversions : conv[ks[1]][ks[2]].attempt <= maxRetries)
    /\ [](imgPc \in {"delay", "written", "done"} =>
            \A k \in 1..Len(groupsArray) :
                k <= iImages + BATCH_SIZE_IMAGES => settled[k] # "pending")
    /\ (imgPc = "batch") ~> (imgPc \in {"delay", "written"})
    /\ <>[](imgPc = "done")

\* C30 witness: a run of two batches has finished although an item's
\* conversion ended in an error.
C30_Witness ==
    /\ imgPc = "done"
    /\ Len(groupsArray) > BATCH_SIZE_IMAGES
    /\ \E k \in 1..Len(groupsArray) : settled[k] = "errorPair"

====
